---- MODULE Spec2Model ----
(***************************************************************************)
(* Live-game-stats: the scoreboard normalizers (src/app.js and the earlier *)
(* revision src/unnamed/part_000) and the schedule controller (NBAApp).    *)
(*                                                                         *)
(* JavaScript values are tagged records; a property read of a missing key  *)
(* yields undefined, a property read of undefined/null throws.  A thrown   *)
(* exception is the value Threw, which every later step of the same        *)
(* evaluation propagates.                                                  *)
(***************************************************************************)
EXTENDS Integers, Sequences, FiniteSets, TLC

VARIABLES
    fn,            \* normalizer harness: which normalizer was applied ("none" before)
    input,         \* normalizer harness: the raw provider payload
    output,        \* normalizer harness: what the normalizer returned (or Threw)
    dom,           \* which of the page's elements getElementById found
    tz,            \* the viewer's timezone offset, hours east of UTC
    now,           \* the wall clock, hours since the epoch (UTC)
    currentDate,   \* this.currentDate, hours since the epoch (UTC)
    games,         \* this.games
    grid,          \* what #games-grid shows
    dateDisplay,   \* #current-date text and #date-picker value
    spinning,      \* the refresh button carries the class 'spinning'
    requests,      \* the loads in flight, each suspended at an await
    issued,        \* how many loads were started so far
    notifications, \* the fallback notices in document.body
    timers,        \* the pending setTimeout / setInterval callbacks
    shown          \* history: the request whose completion last wrote this.games

nvars == <<fn, input, output>>
cvars == <<dom, tz, now, currentDate, games, grid, dateDisplay, spinning, requests, issued,
           notifications, timers, shown>>
vars == <<nvars, cvars>>

----------------------------------------------------------------------------
(* JavaScript values *)

Undef == [t |-> "undefined"]
Null == [t |-> "null"]
NaN == [t |-> "NaN"]
Threw == [t |-> "throw"]
Num(n) == [t |-> "number", n |-> n]
Str(s) == [t |-> "string", s |-> s]
Bool(b) == [t |-> "boolean", b |-> b]
Arr(a) == [t |-> "array", a |-> a]
Obj(o) == [t |-> "object", o |-> o]

\* what a call produced: Returned(list of Games), or Threw
Returned(g) == [t |-> "return", games |-> g]

IsThrew(v) == v.t = "throw"
Nullish(v) == v.t \in {"undefined", "null"}
IsArray(v) == v.t = "array"
IsString(v) == v.t = "string"

\* !!v
Truthy(v) ==
    CASE v.t \in {"undefined", "null", "NaN"} -> FALSE
      [] v.t = "number" -> v.n # 0
      [] v.t = "string" -> v.s # ""
      [] v.t = "boolean" -> v.b
      [] OTHER -> TRUE

\* v.k : undefined for a missing key, TypeError on undefined/null
Get(v, k) ==
    IF IsThrew(v) \/ Nullish(v) THEN Threw
    ELSE IF v.t = "object" /\ k \in DOMAIN v.o THEN v.o[k]
    ELSE Undef

\* v[i] with a 0-based index i
At(v, i) ==
    IF IsThrew(v) \/ Nullish(v) THEN Threw
    ELSE IF v.t = "array" /\ i >= 0 /\ i < Len(v.a) THEN v.a[i + 1]
    ELSE IF v.t = "string" /\ i >= 0 /\ i < Len(v.s) THEN Str(SubSeq(v.s, i + 1, i + 1))
    ELSE Undef

\* a ?? b
Coalesce(a, b) == IF IsThrew(a) THEN Threw ELSE IF Nullish(a) THEN b ELSE a

\* a || b
OrElse(a, b) == IF IsThrew(a) THEN Threw ELSE IF Truthy(a) THEN a ELSE b

\* a && b
AndAlso(a, b) == IF IsThrew(a) THEN Threw ELSE IF Truthy(a) THEN b ELSE a

\* a === b for primitives (NaN is not equal to itself)
StrictEq(a, b) == a.t # "NaN" /\ a = b

----------------------------------------------------------------------------
(* Strings and numbers *)

Digits == <<"0", "1", "2", "3", "4", "5", "6", "7", "8", "9">>
Upper == "ABCDEFGHIJKLMNOPQRSTUVWXYZ"
Lower == "abcdefghijklmnopqrstuvwxyz"

Char(s, i) == SubSeq(s, i, i)

DigitMap == [c \in {Digits[d] : d \in 1..10} |-> (CHOOSE d \in 1..10 : Digits[d] = c) - 1]

IsDigit(c) == c \in DOMAIN DigitMap
DigitVal(c) == DigitMap[c]
IsSpace(c) == c = " "

LowerMap ==
    [c \in {Char(Upper, i) : i \in 1..26} |->
        Char(Lower, CHOOSE i \in 1..26 : Char(Upper, i) = c)]

LowerChar(c) == IF c \in DOMAIN LowerMap THEN LowerMap[c] ELSE c

RECURSIVE ToLowerCase(_)
ToLowerCase(s) ==
    IF s = "" THEN ""
    ELSE LowerChar(Char(s, 1)) \o ToLowerCase(SubSeq(s, 2, Len(s)))

\* s.includes(sub)
Includes(s, sub) ==
    \E i \in 1..(Len(s) - Len(sub) + 1) : SubSeq(s, i, i + Len(sub) - 1) = sub

RECURSIVE NatToStr(_)
NatToStr(n) ==
    IF n < 10 THEN Digits[n + 1]
    ELSE NatToStr(n \div 10) \o Digits[(n % 10) + 1]

IntToStr(n) == IF n < 0 THEN "-" \o NatToStr(-n) ELSE NatToStr(n)

\* the value of the longest digit prefix of s starting at i, as <<value, count>>
RECURSIVE DigitRun(_, _, _, _)
DigitRun(s, i, acc, cnt) ==
    IF i <= Len(s) /\ IsDigit(Char(s, i))
    THEN DigitRun(s, i + 1, acc * 10 + DigitVal(Char(s, i)), cnt + 1)
    ELSE <<acc, cnt>>

RECURSIVE SkipSpaces(_, _)
SkipSpaces(s, i) ==
    IF i <= Len(s) /\ IsSpace(Char(s, i)) THEN SkipSpaces(s, i + 1) ELSE i

RECURSIVE TrimEnd(_)
TrimEnd(s) ==
    IF s # "" /\ IsSpace(Char(s, Len(s))) THEN TrimEnd(SubSeq(s, 1, Len(s) - 1)) ELSE s

Trim(s) == TrimEnd(SubSeq(s, SkipSpaces(s, 1), Len(s)))

\* parseInt(s, 10): leading blanks, an optional sign, then the longest run of
\* digits; NaN when there is none
ParseInt(s) ==
    LET i == SkipSpaces(s, 1)
        neg == i <= Len(s) /\ Char(s, i) = "-"
        j == IF i <= Len(s) /\ Char(s, i) \in {"-", "+"} THEN i + 1 ELSE i
        run == DigitRun(s, j, 0, 0)
    IN  IF run[2] = 0 THEN NaN ELSE Num(IF neg THEN -run[1] ELSE run[1])

\* Number(s) for a string: the whole trimmed string must be a decimal integer
\* literal ("" is 0); the strings of this model hold no fraction or exponent
StringToNumber(s) ==
    LET w == Trim(s)
        neg == w # "" /\ Char(w, 1) = "-"
        j == IF w # "" /\ Char(w, 1) \in {"-", "+"} THEN 2 ELSE 1
        run == DigitRun(w, j, 0, 0)
    IN  IF w = "" THEN Num(0)
        ELSE IF run[2] = 0 \/ j + run[2] - 1 # Len(w) THEN NaN
        ELSE Num(IF neg THEN -run[1] ELSE run[1])

\* Number(v)
ToNumber(v) ==
    CASE IsThrew(v) -> Threw
      [] v.t = "undefined" -> NaN
      [] v.t = "null" -> Num(0)
      [] v.t = "number" -> v
      [] v.t = "NaN" -> NaN
      [] v.t = "boolean" -> Num(IF v.b THEN 1 ELSE 0)
      [] v.t = "string" -> StringToNumber(v.s)
      [] v.t = "array" -> IF v.a = <<>> THEN Num(0)
                          ELSE IF Len(v.a) = 1 /\ v.a[1].t \in {"number", "string"}
                               THEN (IF v.a[1].t = "number" THEN v.a[1]
                                     ELSE StringToNumber(v.a[1].s))
                          ELSE NaN
      [] OTHER -> NaN

\* String(v) / template-literal conversion, for the values of this model
ToStr(v) ==
    CASE v.t = "undefined" -> "undefined"
      [] v.t = "null" -> "null"
      [] v.t = "NaN" -> "NaN"
      [] v.t = "number" -> IntToStr(v.n)
      [] v.t = "string" -> v.s
      [] v.t = "boolean" -> IF v.b THEN "true" ELSE "false"
      [] v.t = "array" -> IF v.a = <<>> THEN "" ELSE "[array]"
      [] OTHER -> "[object Object]"

----------------------------------------------------------------------------
(* Array.prototype.find / findIndex with a callback that may throw.  The    *)
(* callback answers "yes", "no" or "throw"; the scan stops at the first     *)
(* element whose answer is not "no".                                        *)

FirstHit(a, Test(_)) ==
    LET hits == {i \in 1..Len(a) : Test(a[i]) # "no"}
    IN  IF hits = {} THEN 0 ELSE CHOOSE i \in hits : \A j \in hits : i <= j

\* v.find(cb): TypeError when v is undefined/null or has no find method
ArrayFind(v, Test(_)) ==
    IF IsThrew(v) \/ ~IsArray(v) THEN Threw
    ELSE LET i == FirstHit(v.a, Test)
         IN  IF i = 0 THEN Undef
             ELSE IF Test(v.a[i]) = "throw" THEN Threw
             ELSE v.a[i]

----------------------------------------------------------------------------
(* normalizeESPNGames (src/app.js) *)

\* c => c.homeAway === side
SideTest(c, side) ==
    IF Nullish(c) THEN "throw"
    ELSE IF StrictEq(Get(c, "homeAway"), Str(side)) THEN "yes" ELSE "no"

\* c => c.name.toLowerCase() === 'points' || c.shortDisplayName === 'Pts'
PointsCatTest(c) ==
    IF Nullish(c) \/ Nullish(Get(c, "name")) \/ ~IsString(Get(c, "name")) THEN "throw"
    ELSE IF ToLowerCase(Get(c, "name").s) = "points"
            \/ StrictEq(Get(c, "shortDisplayName"), Str("Pts"))
         THEN "yes" ELSE "no"

\* l => l.team.id === side.team.id
LeaderTest(l, side) ==
    LET a == Get(Get(l, "team"), "id")
        b == Get(Get(side, "team"), "id")
    IN  IF IsThrew(a) \/ IsThrew(b) THEN "throw"
        ELSE IF StrictEq(a, b) THEN "yes" ELSE "no"

NoLeaders == [home |-> Null, away |-> Null]

\* the read of the undeclared identifier awayLdr (app.js line 232): a
\* ReferenceError
UndeclaredAwayLdr == Threw

\* homeLeader = { name: p.athlete.shortName, stat: p.displayValue }
HomeLeaderOf(p) ==
    IF Truthy(p) /\ Truthy(Get(p, "athlete"))
    THEN Obj([name |-> Get(Get(p, "athlete"), "shortName"), stat |-> Get(p, "displayValue")])
    ELSE Null

\* awayLeader = { name: p.athlete.shortName, stat: awayLdr.displayValue }: the
\* object literal is never built, the assignment never happens
AwayLeaderOf(p) ==
    IF Truthy(p) /\ Truthy(Get(p, "athlete"))
    THEN (IF IsThrew(Get(UndeclaredAwayLdr, "displayValue")) THEN Null
          ELSE Obj([name |-> Get(Get(p, "athlete"), "shortName"),
                    stat |-> Get(UndeclaredAwayLdr, "displayValue")]))
    ELSE Null

\* the try block of lines 220-236, a throw left to the caller
LeadersTry(comp, home, away) ==
    LET cats == Get(comp, "leaders")
        pointsCat == ArrayFind(cats, PointsCatTest)
        list == Get(pointsCat, "leaders")
        homeLdrParams == ArrayFind(list, LAMBDA l : LeaderTest(l, home))
        awayLdrParams == ArrayFind(list, LAMBDA l : LeaderTest(l, away))
    IN  IF ~Truthy(cats) THEN NoLeaders
        ELSE IF IsThrew(pointsCat) THEN Threw
        ELSE IF ~(Truthy(pointsCat) /\ Truthy(list)) THEN NoLeaders
        ELSE IF IsThrew(homeLdrParams) \/ IsThrew(awayLdrParams) THEN Threw
        ELSE [home |-> HomeLeaderOf(homeLdrParams), away |-> AwayLeaderOf(awayLdrParams)]

\* the leader extraction without its try/catch: the error escapes
RethrowLeaders(r) == r

\* catch (e) { console.warn(...) }: both leaders keep their initial null
CatchLeaders(r) == IF r = Threw THEN NoLeaders ELSE r

\* let statusCode = 1; 'in' -> 2; 'post' -> 3
ESPNStatusCode(state) ==
    IF StrictEq(state, Str("post")) THEN 3
    ELSE IF StrictEq(state, Str("in")) THEN 2
    ELSE 1

\* team.logo || (team.logos && team.logos[0] && team.logos[0].href) || ''
ESPNLogo(team) ==
    LET logos == Get(team, "logos")
    IN  OrElse(OrElse(Get(team, "logo"),
                      AndAlso(AndAlso(logos, At(logos, 0)), Get(At(logos, 0), "href"))),
               Str(""))

ESPNTeamResult(c) ==
    LET team == Get(c, "team")
    IN  [id |-> Get(team, "id"),
         tricode |-> Get(team, "abbreviation"),
         name |-> Get(team, "name"),
         logo |-> ESPNLogo(team),
         score |-> ToNumber(Get(c, "score")),
         wins |-> Null,
         losses |-> Null]

\* the map callback of normalizeESPNGames: a Game, or Threw
\* const comp = event.competitions[0]
EventComp(event) == At(Get(event, "competitions"), 0)

\* comp.competitors.find(c => c.homeAway === side)
EventSide(event, side) ==
    ArrayFind(Get(EventComp(event), "competitors"), LAMBDA c : SideTest(c, side))

normalizeESPNEvent(event) ==
    LET comp == EventComp(event)
        competitors == Get(comp, "competitors")
        home == EventSide(event, "home")
        away == EventSide(event, "away")
        status == Get(Get(event, "status"), "type")
        state == Get(status, "state")
        statusCode == ESPNStatusCode(state)
        leaders == CatchLeaders(LeadersTry(comp, home, away))
    IN  IF \/ IsThrew(comp) \/ IsThrew(competitors) \/ IsThrew(home) \/ IsThrew(away)
           \/ IsThrew(status) \/ IsThrew(state)
           \/ IsThrew(Get(Get(home, "team"), "id")) \/ IsThrew(Get(Get(away, "team"), "id"))
           \/ leaders = Threw
        THEN Threw
        ELSE [id |-> Get(event, "id"),
              status |-> Get(status, "shortDetail"),
              statusCode |-> Num(statusCode),
              clock |-> Get(status, "shortDetail"),
              isLive |-> (statusCode = 2),
              home |-> ESPNTeamResult(home),
              away |-> ESPNTeamResult(away),
              leaders |-> leaders]

\* Array.prototype.map with a callback that may throw: the list of results, or
\* Threw when the callback threw for some element
MapOrThrow(a, F(_)) ==
    LET r == [i \in 1..Len(a) |-> F(a[i])]
    IN  IF \E i \in 1..Len(a) : r[i] = Threw THEN Threw ELSE Returned(r)

\* the container check without its Array.isArray half
ESPNContainerOkIfTruthy(data) == Truthy(data)

\* if (!data || !Array.isArray(data.events)) return [];
ESPNContainerOk(data) == Truthy(data) /\ IsArray(Get(data, "events"))

normalizeESPNGames(data) ==
    IF ~ESPNContainerOk(data) THEN Returned(<<>>)
    ELSE IF ~IsArray(Get(data, "events")) THEN Threw
    ELSE MapOrThrow(Get(data, "events").a, normalizeESPNEvent)

----------------------------------------------------------------------------
(* normalizeLiveGames and formatLeader (src/unnamed/part_000) *)

\* a ?? b ?? c
Coalesce3(a, b, c) == Coalesce(Coalesce(a, b), c)

\* Array.prototype.join(', '): undefined and null elements give ''
RECURSIVE Join(_)
Join(a) ==
    IF a = <<>> THEN ""
    ELSE LET h == IF Nullish(Head(a)) THEN "" ELSE ToStr(Head(a))
         IN  IF Len(a) = 1 THEN h ELSE h \o ", " \o Join(Tail(a))

\* leader.name || (first/last name) || playerName || personFullName || player || ''
LeaderName(leader) ==
    LET first == Get(leader, "firstName")
        last == Get(leader, "lastName")
        full == IF Truthy(OrElse(first, last))
                THEN Str(Trim(ToStr(OrElse(first, Str(""))) \o " " \o ToStr(OrElse(last, Str("")))))
                ELSE Null
    IN  OrElse(OrElse(OrElse(OrElse(OrElse(Get(leader, "name"), full),
                                    Get(leader, "playerName")),
                             Get(leader, "personFullName")),
                      Get(leader, "player")),
               Str(""))

\* pts != null ? `${pts} PTS` : (a string stat, a joined list stat, or '')
LeaderStat(leader) ==
    LET pts == Coalesce(Coalesce3(Get(leader, "points"), Get(leader, "pts"), Get(leader, "PTS")),
                        Coalesce(Get(leader, "pointsScored"), Null))
        stat == Get(leader, "stat")
    IN  IF ~Nullish(pts) THEN Str(ToStr(pts) \o " PTS")
        ELSE IF IsString(stat) THEN stat
        ELSE IF IsArray(stat) THEN Str(Join(stat.a))
        ELSE Str("")

formatLeader(leader) ==
    LET one == IF IsArray(leader) THEN OrElse(At(leader, 0), Null) ELSE leader
    IN  IF ~Truthy(leader) \/ ~Truthy(one) THEN Null
        ELSE Obj([name |-> OrElse(LeaderName(one), Str("")),
                  stat |-> OrElse(LeaderStat(one), Str(""))])

\* Number(game.gameStatus ?? game.status ?? 1)
LiveStatusVal(game) ==
    ToNumber(Coalesce3(Get(game, "gameStatus"), Get(game, "status"), Num(1)))

\* Number(team.score ?? team.points ?? 0)
LiveScore(team) == ToNumber(Coalesce3(Get(team, "score"), Get(team, "points"), Num(0)))

LiveTeamResult(team) ==
    [id |-> Coalesce(Coalesce3(Get(team, "teamId"), Get(team, "team_id"), Get(team, "teamId")),
                     Null),
     tricode |-> Coalesce(Coalesce3(Get(team, "teamTricode"), Get(team, "tricode"),
                                    Get(team, "triCode")), Null),
     name |-> Coalesce(Coalesce3(Get(team, "teamName"), Get(team, "nickname"),
                                 Get(team, "fullName")), Str("")),
     score |-> LiveScore(team),
     wins |-> Coalesce3(Get(team, "wins"), Get(team, "win"), Null),
     losses |-> Coalesce3(Get(team, "losses"), Get(team, "loss"), Null)]

\* the map callback of normalizeLiveGames: a Game, or Threw (game.period of an
\* undefined/null entry)
normalizeLiveGame(game) ==
    LET p == Get(game, "period")
        period == Coalesce3(AndAlso(p, Coalesce(Get(p, "current"), p)), p, Str(""))
        clock == Coalesce3(Get(game, "gameClock"), Get(game, "clock"), Str(""))
        home == Coalesce(Coalesce3(Get(game, "homeTeam"), Get(game, "hTeam"), Get(game, "home")),
                         Obj(<<>>))
        away == Coalesce(Coalesce3(Get(game, "awayTeam"), Get(game, "vTeam"), Get(game, "away")),
                         Obj(<<>>))
        leaders == Coalesce3(Get(game, "gameLeaders"), Get(game, "leaders"), Null)
        statusVal == LiveStatusVal(game)
        statusText == Coalesce3(Get(game, "gameStatusText"), Get(game, "statusText"), Str(""))
    IN  IF Nullish(game) THEN Threw
        ELSE [id |-> Coalesce3(Get(game, "gameId"), Get(game, "game_id"),
                               Str(ToStr(OrElse(Get(game, "gameCode"), Str(""))))),
              status |-> statusText,
              statusCode |-> statusVal,
              clock |-> IF StrictEq(statusVal, Num(2))
                        THEN Str("Q" \o ToStr(period) \o " " \o ToStr(clock))
                        ELSE statusText,
              isLive |-> StrictEq(statusVal, Num(2)),
              home |-> LiveTeamResult(home),
              away |-> LiveTeamResult(away),
              leaders |-> IF Truthy(leaders)
                          THEN [home |-> formatLeader(Coalesce(Coalesce3(Get(leaders, "homeLeaders"),
                                             Get(leaders, "home"), Get(leaders, "homeLeader")), Null)),
                                away |-> formatLeader(Coalesce(Coalesce3(Get(leaders, "awayLeaders"),
                                             Get(leaders, "away"), Get(leaders, "awayLeader")), Null))]
                          ELSE Null]

\* a list read back to front
LiveListReversed(list) ==
    IF IsArray(list) THEN Arr([i \in DOMAIN list.a |-> list.a[Len(list.a) + 1 - i]])
    ELSE OrElse(list, Arr(<<>>))

\* games || []
LiveListOf(list) == OrElse(list, Arr(<<>>))

\* (games || []).map(...): TypeError when the list has no map method
normalizeLiveGames(list) ==
    IF ~IsArray(LiveListOf(list)) THEN Threw
    ELSE MapOrThrow(LiveListOf(list).a, normalizeLiveGame)

----------------------------------------------------------------------------
(* normalizeHistoricalGames (src/unnamed/part_000) *)

\* rs => rs.name && rs.name.toLowerCase().includes(nameGuess.toLowerCase())
ResultSetTest(rs, nameGuess) ==
    LET name == Get(rs, "name")
    IN  IF Nullish(rs) THEN "throw"
        ELSE IF ~Truthy(name) THEN "no"
        ELSE IF ~IsString(name) THEN "throw"
        ELSE IF Includes(ToLowerCase(name.s), ToLowerCase(nameGuess)) THEN "yes" ELSE "no"

\* found || data.resultSets[fallbackIndex] || null
getResultSet(resultSets, nameGuess, fallbackIndex) ==
    LET found == ArrayFind(resultSets, LAMBDA rs : ResultSetTest(rs, nameGuess))
    IN  IF IsThrew(found) THEN Threw
        ELSE OrElse(OrElse(found, At(resultSets, fallbackIndex)), Null)

\* list.findIndex(h => String(h).toLowerCase() === name.toLowerCase()), 0-based,
\* -1 when absent
FindHeader(list, name) ==
    LET lowered == [i \in 1..Len(list) |-> ToLowerCase(ToStr(list[i]))]
        target == ToLowerCase(name)
        hits == {i \in 1..Len(list) : lowered[i] = target}
    IN  IF hits = {} THEN -1 ELSE (CHOOSE i \in hits : \A j \in hits : i <= j) - 1

\* idx(name) >= 0 ? idx(name) : fallback
ColumnIndex(list, name, fallback) ==
    LET i == FindHeader(list, name) IN IF i >= 0 THEN i ELSE fallback

\* the part of s before the first '-' (from position i on)
RECURSIVE UpToDash(_, _)
UpToDash(s, i) ==
    IF i > Len(s) \/ Char(s, i) = "-" THEN ""
    ELSE Char(s, i) \o UpToDash(s, i + 1)

\* rec.split('-'): its first two pieces
SplitDash(s) ==
    LET first == UpToDash(s, 1)
        second == UpToDash(s, Len(first) + 2)
    IN  <<first, second>>

\* isNaN(w) ? null : w
NullIfNaN(n) == IF n.t = "NaN" THEN Null ELSE n

NoRecord == [wins |-> Null, losses |-> Null]

\* a record parser that takes the losses from the first half and the wins from
\* the second
parseRecordSwapped(rec) ==
    IF ~Truthy(rec) THEN NoRecord
    ELSE IF IsString(rec) /\ Includes(rec.s, "-")
         THEN [wins |-> NullIfNaN(ParseInt(SplitDash(rec.s)[2])),
               losses |-> NullIfNaN(ParseInt(SplitDash(rec.s)[1]))]
    ELSE NoRecord

parseRecord(rec) ==
    IF ~Truthy(rec) THEN NoRecord
    ELSE IF IsString(rec) /\ Includes(rec.s, "-")
         THEN [wins |-> NullIfNaN(ParseInt(SplitDash(rec.s)[1])),
               losses |-> NullIfNaN(ParseInt(SplitDash(rec.s)[2]))]
    ELSE NoRecord

TricodeMap ==
    [k \in {"1610612747", "1610612738", "1610612744", "1610612756", "1610612746",
            "1610612741", "1610612760"} |->
        CASE k = "1610612747" -> "LAL"
          [] k = "1610612738" -> "BOS"
          [] k = "1610612744" -> "GSW"
          [] k = "1610612756" -> "PHX"
          [] k = "1610612746" -> "BKN"
          [] k = "1610612741" -> "CHI"
          [] OTHER -> "SAC"]

\* map[Number(id)] || map[id] || 'NBA'
getTeamTricode(id) ==
    LET parsed == ToStr(ToNumber(id))
    IN  IF parsed \in DOMAIN TricodeMap THEN Str(TricodeMap[parsed])
        ELSE IF ToStr(id) \in DOMAIN TricodeMap THEN Str(TricodeMap[ToStr(id)])
        ELSE Str("NBA")

\* a status mapping that reports every historical game that is not final as in
\* progress
HistoricalStatusCodeLive(statusText) ==
    IF Includes(ToLowerCase(ToStr(statusText)), "final") THEN 3 ELSE 2

\* String(statusText).toLowerCase().includes('final') ? 3 : 1
HistoricalStatusCode(statusText) ==
    IF Includes(ToLowerCase(ToStr(statusText)), "final") THEN 3 ELSE 1

\* a line test that looks at the game id alone
LineTestGameOnly(l, gameId, teamId) ==
    IF Nullish(l) THEN "throw"
    ELSE IF ToStr(At(l, 2)) = ToStr(gameId) THEN "yes"
    ELSE "no"
\* l => String(l[2]) === String(gameId) && String(l[3]) === String(teamId)
LineTest(l, gameId, teamId) ==
    IF Nullish(l) THEN "throw"
    ELSE IF ToStr(At(l, 2)) = ToStr(gameId) /\ ToStr(At(l, 3)) = ToStr(teamId) THEN "yes"
    ELSE "no"

\* Number(line[ptsIdxLine] ?? 0)
HistoricalScore(line, ptsIdxLine) == ToNumber(Coalesce(At(line, ptsIdxLine), Num(0)))

HistoricalTeamResult(teamId, line, ptsIdxLine, rec) ==
    [id |-> teamId,
     tricode |-> getTeamTricode(teamId),
     name |-> Str(""),
     score |-> HistoricalScore(line, ptsIdxLine),
     wins |-> rec.wins,
     losses |-> rec.losses]

\* the map callback over the header rows: a Game, or Threw
\* the column indexes of lines 257-264, resolved once per call
HistoricalColumns(headers, lineHeaders) ==
    [gameIdIdx |-> ColumnIndex(headers, "GAME_ID", 2),
     statusIdx |-> ColumnIndex(headers, "GAME_STATUS_TEXT", 4),
     homeIdIdx |-> ColumnIndex(headers, "HOME_TEAM_ID", 6),
     awayIdIdx |-> ColumnIndex(headers, "VISITOR_TEAM_ID", 7),
     homeRecIdx |-> ColumnIndex(headers, "HOME_TEAM_WINS_LOSSES", 8),
     awayRecIdx |-> ColumnIndex(headers, "VISITOR_TEAM_WINS_LOSSES", 9),
     ptsIdxLine |-> ColumnIndex(lineHeaders, "PTS", 22)]

normalizeHistoricalRow(row, col, lineRows) ==
    LET gameId == At(row, col.gameIdIdx)
        statusText == OrElse(At(row, col.statusIdx), Str(""))
        homeTeamId == At(row, col.homeIdIdx)
        awayTeamId == At(row, col.awayIdIdx)
        ptsIdxLine == col.ptsIdxLine
        homeRecIdx == col.homeRecIdx
        awayRecIdx == col.awayRecIdx
        homeFound == ArrayFind(lineRows, LAMBDA l : LineTest(l, gameId, homeTeamId))
        awayFound == ArrayFind(lineRows, LAMBDA l : LineTest(l, gameId, awayTeamId))
    IN  IF IsThrew(gameId) \/ IsThrew(homeFound) \/ IsThrew(awayFound) THEN Threw
        ELSE [id |-> Str(ToStr(gameId)),
              status |-> statusText,
              statusCode |-> Num(HistoricalStatusCode(statusText)),
              clock |-> statusText,
              isLive |-> FALSE,
              home |-> HistoricalTeamResult(homeTeamId, OrElse(homeFound, Arr(<<>>)), ptsIdxLine,
                                            parseRecord(At(row, homeRecIdx))),
              away |-> HistoricalTeamResult(awayTeamId, OrElse(awayFound, Arr(<<>>)), ptsIdxLine,
                                            parseRecord(At(row, awayRecIdx))),
              leaders |-> Null]

\* if (!data || !Array.isArray(data.resultSets)) return [];
HistoricalContainerOk(data) == Truthy(data) /\ IsArray(Get(data, "resultSets"))

normalizeHistoricalGames(data) ==
    LET resultSets == Get(data, "resultSets")
        headerSet == getResultSet(resultSets, "GameHeader", 0)
        lineScoreSet == getResultSet(resultSets, "LineScore", 1)
        headers == OrElse(Get(headerSet, "headers"), Arr(<<>>))
        lineHeaders == OrElse(AndAlso(lineScoreSet, OrElse(Get(lineScoreSet, "headers"), Arr(<<>>))),
                              Arr(<<>>))
        lineRows == OrElse(AndAlso(lineScoreSet, Get(lineScoreSet, "rowSet")), Arr(<<>>))
    IN  IF ~HistoricalContainerOk(data) THEN Returned(<<>>)
        ELSE IF ~IsArray(resultSets) THEN Threw
        ELSE IF IsThrew(headerSet) \/ IsThrew(lineScoreSet) THEN Threw
        ELSE IF ~Truthy(headerSet) \/ ~IsArray(Get(headerSet, "rowSet")) THEN Returned(<<>>)
        ELSE IF ~IsArray(headers) \/ ~IsArray(lineHeaders) THEN Threw
        ELSE LET col == HistoricalColumns(headers.a, lineHeaders.a)
             IN  MapOrThrow(Get(headerSet, "rowSet").a,
                            LAMBDA row : normalizeHistoricalRow(row, col, lineRows))

----------------------------------------------------------------------------
(* Provider payloads: ESPN scoreboard *)

MaxEvents == 2

ESPNTeam(id, abbr, name) ==
    Obj([id |-> Str(id), abbreviation |-> Str(abbr), name |-> Str(name),
         logo |-> Str("https://a.espncdn.com/" \o abbr \o ".png")])

Lakers == ESPNTeam("13", "LAL", "Lakers")
Celtics == ESPNTeam("2", "BOS", "Celtics")

Competitor(side, team, score) ==
    Obj([homeAway |-> Str(side), team |-> team, score |-> score])

StatusOf(state, detail) ==
    Obj([type |-> Obj([state |-> Str(state), shortDetail |-> Str(detail)])])

LeaderEntry(team, athlete, value) ==
    Obj([team |-> team, athlete |-> athlete, displayValue |-> Str(value)])

PointsCategory(name, short, list) ==
    Obj([name |-> name, shortDisplayName |-> short, leaders |-> list])

BothLeaders ==
    Arr(<<LeaderEntry(Obj([id |-> Str("13")]), Obj([shortName |-> Str("L. James")]), "28"),
          LeaderEntry(Obj([id |-> Str("2")]), Obj([shortName |-> Str("J. Tatum")]), "34")>>)

\* comp.leaders as the provider sends it, and the malformed shapes
LeaderShapes ==
    { Undef,
      Arr(<<>>),
      Arr(<<PointsCategory(Str("Points"), Str("Pts"), BothLeaders)>>),
      Arr(<<PointsCategory(Str("rebounds"), Str("Reb"), BothLeaders),
            PointsCategory(Str("points"), Undef, BothLeaders)>>),
      Arr(<<PointsCategory(Undef, Str("Pts"), BothLeaders)>>),
      Arr(<<PointsCategory(Str("points"), Str("Pts"),
                           Arr(<<LeaderEntry(Undef, Obj([shortName |-> Str("L. James")]), "28")>>))>>),
      Obj([points |-> BothLeaders]) }

ScoreShapes == {Undef, Null, Str("112"), Str("abc"), Num(109)}

StateTags == {"pre", "in", "post", "postponed"}

ESPNEvent(id, competitions, status) ==
    Obj([id |-> Str(id), competitions |-> competitions, status |-> status])

Competition(competitors, leaders) ==
    Arr(<<Obj([competitors |-> competitors, leaders |-> leaders])>>)

BothSides(homeScore, awayScore) ==
    Arr(<<Competitor("home", Lakers, homeScore), Competitor("away", Celtics, awayScore)>>)

FullEvent(id, homeScore, awayScore, state, leaders) ==
    ESPNEvent(id, Competition(BothSides(homeScore, awayScore), leaders),
              StatusOf(state, IF state = "post" THEN "Final" ELSE "Q4 2:30"))

\* events complete but for their scores, state tag and leader data
CompleteEvents ==
    {FullEvent("401", s, Num(109), "post", Undef) : s \in ScoreShapes}
    \cup {FullEvent("401", Str("112"), s, "post", Undef) : s \in ScoreShapes}
    \cup {FullEvent("402", Str("98"), Str("101"), st, Undef) : st \in StateTags}
    \cup {FullEvent("401", Str("112"), Num(109), "post", l) : l \in LeaderShapes}

Scheduled == StatusOf("pre", "7:00 PM")

\* well-formed events with one part missing: no competitions, an empty
\* competitions list, no competitors, no home side, no away side, a side
\* without team, no status, a status without type
IncompleteEvents ==
    { ESPNEvent("403", Undef, Scheduled),
      ESPNEvent("403", Arr(<<>>), Scheduled),
      ESPNEvent("403", Competition(Undef, Undef), Scheduled),
      ESPNEvent("403", Competition(Arr(<<Competitor("away", Celtics, Str("0"))>>), Undef),
                Scheduled),
      ESPNEvent("403", Competition(Arr(<<Competitor("home", Lakers, Str("0"))>>), Undef),
                Scheduled),
      ESPNEvent("403", Competition(Arr(<<Competitor("home", Undef, Str("0")),
                                         Competitor("away", Celtics, Str("0"))>>), Undef),
                Scheduled),
      ESPNEvent("403", Competition(BothSides(Str("0"), Str("0")), Undef), Undef),
      ESPNEvent("403", Competition(BothSides(Str("0"), Str("0")), Undef), Obj(<<>>)) }

ESPNEvents == CompleteEvents \cup IncompleteEvents

SeqsFromTo(S, m, n) == UNION {[1..k -> S] : k \in m..n}

\* data without a usable events container
ESPNEmptyContainers ==
    {Null, Undef, Obj(<<>>), Obj([events |-> Arr(<<>>)]), Obj([events |-> Str("none")]),
     Obj([events |-> Obj([length |-> Num(1)])]), Obj([events |-> Null])}

\* the events that lists of two or more are built from
ESPNListEvents ==
    { FullEvent("401", Str("112"), Num(109), "post", Undef),
      FullEvent("402", Str("98"), Str("101"), "in",
                Arr(<<PointsCategory(Str("Points"), Str("Pts"), BothLeaders)>>)),
      FullEvent("401", Undef, Str("abc"), "postponed",
                Arr(<<PointsCategory(Undef, Str("Pts"), BothLeaders)>>)),
      ESPNEvent("403", Undef, Scheduled) }

ESPNPayloads ==
    ESPNEmptyContainers
    \cup {Obj([events |-> Arr(<<e>>)]) : e \in ESPNEvents}
    \cup {Obj([events |-> Arr(es)]) : es \in SeqsFromTo(ESPNListEvents, 2, MaxEvents)}

----------------------------------------------------------------------------
(* Provider payloads: NBA live scoreboard (the games list) *)

NoFields == <<>>

LiveTeamBase(id, tri, name) ==
    [teamId |-> Num(id), teamTricode |-> Str(tri), teamName |-> Str(name)]

ScoreFields ==
    {NoFields, [score |-> Num(98)], [score |-> Str("98")], [score |-> Null],
     [score |-> Str("abc")], [points |-> Num(98)]}

RecordFields ==
    {NoFields, [wins |-> Num(20), losses |-> Num(21)], [wins |-> Num(20)],
     [losses |-> Num(21)], [win |-> Num(20), loss |-> Num(21)]}

StatusFields ==
    {NoFields, [gameStatus |-> Num(1)], [gameStatus |-> Num(2)], [gameStatus |-> Num(3)],
     [gameStatus |-> Num(4)], [gameStatus |-> Str("2")], [gameStatus |-> Str("Final")],
     [status |-> Num(3)], [gameStatus |-> Null]}

LeaderFields ==
    {NoFields,
     [gameLeaders |-> Obj([homeLeaders |-> Obj([name |-> Str("LeBron James"), points |-> Num(28)]),
                           awayLeaders |-> Obj([firstName |-> Str("Jayson"),
                                                lastName |-> Str("Tatum"), pts |-> Num(34)])])],
     [leaders |-> Obj([home |-> Arr(<<Obj([playerName |-> Str("S. Curry"),
                                           stat |-> Arr(<<Str("30 PTS"), Str("9 REB")>>)])>>),
                       away |-> Arr(<<>>)])],
     [gameLeaders |-> Obj([homeLeader |-> Obj([player |-> Str("K. Durant"),
                                               stat |-> Str("25 PTS")])])]}

Warriors(score, rec) == Obj(LiveTeamBase(1610612744, "GSW", "Warriors") @@ score @@ rec)
Suns(score, rec) == Obj(LiveTeamBase(1610612756, "PHX", "Suns") @@ score @@ rec)

LiveGameBase ==
    [gameId |-> Str("0022300001"), gameStatusText |-> Str("Q4 2:30"),
     period |-> Num(4), gameClock |-> Str("PT02M30.00S")]

FullRecord == [wins |-> Num(18), losses |-> Num(20)]

LiveGame(status, home, away, leaders) ==
    Obj(LiveGameBase @@ status @@ [homeTeam |-> home, awayTeam |-> away] @@ leaders)

LiveGames ==
    {LiveGame(st, Warriors([score |-> Num(98)], FullRecord), Suns([score |-> Num(101)], FullRecord),
              NoFields) : st \in StatusFields}
    \cup {LiveGame([gameStatus |-> Num(2)], Warriors(sc, FullRecord),
                   Suns([score |-> Num(101)], FullRecord), NoFields) : sc \in ScoreFields}
    \cup {LiveGame([gameStatus |-> Num(3)], Warriors([score |-> Num(98)], FullRecord),
                   Suns([score |-> Num(101)], rec), NoFields) : rec \in RecordFields}
    \cup {LiveGame([gameStatus |-> Num(3)], Warriors([score |-> Num(98)], FullRecord),
                   Suns([score |-> Num(101)], FullRecord), l) : l \in LeaderFields}
    \cup {Obj(LiveGameBase),
          Obj(LiveGameBase @@ [hTeam |-> Warriors([score |-> Num(98)], FullRecord),
                               vTeam |-> Suns([score |-> Num(101)], FullRecord),
                               period |-> Obj([current |-> Num(4)]), gameStatus |-> Num(2)]),
          Obj([gameCode |-> Str("20240201/PHXGSW")])}

\* the games that lists of two or more are built from
LiveListGames ==
    { LiveGame([gameStatus |-> Num(3)], Warriors([score |-> Num(98)], FullRecord),
               Suns([score |-> Num(101)], FullRecord), NoFields),
      LiveGame([gameStatus |-> Num(4)], Warriors(NoFields, [wins |-> Num(20)]),
               Suns([score |-> Str("abc")], NoFields), NoFields),
      Obj(LiveGameBase) }

LivePayloads ==
    {Null, Undef, Arr(<<>>)}
    \cup {Arr(<<g>>) : g \in LiveGames}
    \cup {Arr(gs) : gs \in SeqsFromTo(LiveListGames, 2, MaxEvents)}

----------------------------------------------------------------------------
(* Provider payloads: NBA stats scoreboard (tabular result sets) *)

RecordCells ==
    {Str("20-10"), Str("20-x"), Str("-10"), Str("abc"), Str(""), Undef, Null, Num(20),
     Str("x-y"), Str("7-3-1")}

StatusCells == {Str("Final"), Str("7:00 pm ET"), Str("FINAL/OT"), Undef}

PtsCells == {Num(112), Str("109"), Null, Str("abc"), Undef}

\* a header row in the legacy column order (GAME_ID 2, GAME_STATUS_TEXT 4,
\* HOME_TEAM_ID 6, VISITOR_TEAM_ID 7, records 8 and 9)
LegacyHeaderRow(gameId, status, homeId, awayId, homeRec, awayRec) ==
    Arr(<<Str("2024-02-01"), Num(1), gameId, Num(3), status, Str("code"), homeId, awayId,
          homeRec, awayRec>>)

\* a header row in the order of NamedHeaders
NamedHeaders ==
    Arr(<<Str("game_id"), Str("Home_Team_Id"), Str("VISITOR_TEAM_ID"),
          Str("GAME_STATUS_TEXT"), Str("HOME_TEAM_WINS_LOSSES"),
          Str("visitor_team_wins_losses")>>)

NamedHeaderRow(gameId, status, homeId, awayId, homeRec, awayRec) ==
    Arr(<<gameId, homeId, awayId, status, homeRec, awayRec>>)

\* a line-score row: game id at 2, team id at 3, points at column pts (0-based)
LineRow(gameId, teamId, pts, points) ==
    Arr([i \in 1..(pts + 1) |->
            CASE i = 3 -> gameId
              [] i = 4 -> teamId
              [] i = pts + 1 -> points
              [] OTHER -> Num(0)])

LegacyPts == 22
NamedLineHeaders == Arr(<<Str("a"), Str("b"), Str("GAME_ID"), Str("TEAM_ID"), Str("x"), Str("Pts")>>)
\* the zero-based column of the points in a line score with named headers
NamedPts == Len(NamedLineHeaders.a) - 1

GameA == Str("0022300001")
LAL == Num(1610612747)
BOS == Num(1610612738)

HeaderCells ==
    {<<GameA, st, LAL, BOS, Str("20-21"), Str("32-10")>> : st \in StatusCells}
    \cup {<<GameA, Str("Final"), LAL, BOS, r, Str("32-10")>> : r \in RecordCells}
    \cup {<<GameA, Str("Final"), LAL, BOS, Str("20-21"), r>> : r \in RecordCells}
    \cup {<<Num(22300001), Str("Final"), Str("1610612747"), BOS, Str("20-21"), Str("32-10")>>}

LineSets(pts, headers) ==
    {Undef,
     Obj([name |-> Str("LineScore"), headers |-> headers, rowSet |-> Arr(<<>>)]),
     Obj([name |-> Str("LineScore"), headers |-> headers,
          rowSet |-> Arr(<<LineRow(GameA, LAL, pts, Num(112))>>)])}
    \cup {Obj([name |-> Str("LineScore"), headers |-> headers,
               rowSet |-> Arr(<<LineRow(GameA, BOS, pts, Num(109)),
                                LineRow(GameA, LAL, pts, p)>>)]) : p \in PtsCells}

ResultSets(headers, rows, lineSet) ==
    IF lineSet = Undef
    THEN Arr(<<Obj([name |-> Str("GameHeader"), headers |-> headers, rowSet |-> Arr(rows)])>>)
    ELSE Arr(<<Obj([name |-> Str("GameHeader"), headers |-> headers, rowSet |-> Arr(rows)]),
               lineSet>>)

LegacyRowOf(c) == LegacyHeaderRow(c[1], c[2], c[3], c[4], c[5], c[6])
NamedRowOf(c) == NamedHeaderRow(c[1], c[2], c[3], c[4], c[5], c[6])

LegacyTable(cs, ls) ==
    Obj([resultSets |-> ResultSets(Undef, [i \in DOMAIN cs |-> LegacyRowOf(cs[i])], ls)])

NamedTable(cs, ls) ==
    Obj([resultSets |-> ResultSets(NamedHeaders, [i \in DOMAIN cs |-> NamedRowOf(cs[i])], ls)])

\* the rows that tables of two or more rows are built from
ListCells ==
    { <<GameA, Str("Final"), LAL, BOS, Str("20-21"), Str("32-10")>>,
      <<GameA, Str("7:00 pm ET"), LAL, BOS, Str("20-x"), Undef>>,
      <<Str("0022300002"), Undef, BOS, LAL, Str("abc"), Str("-10")>> }

BothLines(pts, headers) ==
    Obj([name |-> Str("LineScore"), headers |-> headers,
         rowSet |-> Arr(<<LineRow(GameA, BOS, pts, Num(109)), LineRow(GameA, LAL, pts, Num(112))>>)])

GameB == Str("0022300002")

\* line scores with a row of another game first and two rows for one team
LookupLines(pts, headers) ==
    Obj([name |-> Str("LineScore"), headers |-> headers,
         rowSet |-> Arr(<<LineRow(GameB, LAL, pts, Num(77)), LineRow(GameA, BOS, pts, Num(109)),
                          LineRow(GameA, LAL, pts, Num(112)), LineRow(GameA, LAL, pts, Num(99))>>)])

\* headers that name the game id column only, and line headers without PTS
PartlyNamedHeaders == Arr(<<Str("SEASON"), Str("Game_Id")>>)
LineHeadersWithoutPts == Arr(<<Str("GAME_DATE_EST"), Str("GAME_SEQUENCE"), Str("GAME_ID")>>)

\* a header row with the game id at column 1 and the rest in the legacy order
PartlyNamedRowOf(c) ==
    Arr(<<Str("2023-24"), c[1], Num(0), Num(3), c[2], Str("code"), c[3], c[4], c[5], c[6]>>)

PartlyNamedTable(cs, ls) ==
    Obj([resultSets |->
            ResultSets(PartlyNamedHeaders, [i \in DOMAIN cs |-> PartlyNamedRowOf(cs[i])], ls)])

\* a header row whose home team id is a string, the line scores holding numbers
StringIdCells == <<GameA, Str("Final"), Str("1610612747"), BOS, Str("20-21"), Str("32-10")>>

\* tables that exercise the lookup of the line-score row
LookupTables ==
    {LegacyTable(<<c>>, LookupLines(LegacyPts, Undef)) : c \in ListCells}
    \cup {NamedTable(<<c>>, LookupLines(NamedPts, NamedLineHeaders)) : c \in ListCells}
    \cup {PartlyNamedTable(<<c>>, LookupLines(LegacyPts, LineHeadersWithoutPts)) : c \in ListCells}
    \cup {LegacyTable(<<StringIdCells>>, LookupLines(LegacyPts, Undef))}
HistoricalTables ==
    {LegacyTable(<<c>>, ls) : c \in HeaderCells, ls \in LineSets(LegacyPts, Undef)}
    \cup {NamedTable(<<c>>, ls) : c \in HeaderCells, ls \in LineSets(NamedPts, NamedLineHeaders)}
    \cup {LegacyTable(cs, BothLines(LegacyPts, Undef)) : cs \in SeqsFromTo(ListCells, 2, MaxEvents)}
    \cup {NamedTable(cs, BothLines(NamedPts, NamedLineHeaders)) :
             cs \in SeqsFromTo(ListCells, 2, MaxEvents)}
    \cup {Obj([resultSets |->
                  ResultSets(Undef, <<Arr(<<Str("2024-02-01"), Num(1), GameA>>)>>, ls)]) :
             ls \in LineSets(LegacyPts, Undef)}
    \cup LookupTables

\* data without a usable header result set
HistoricalEmptyContainers ==
    {Null, Undef, Obj(<<>>), Obj([resultSets |-> Str("none")]), Obj([resultSets |-> Null]),
     Obj([resultSets |-> Arr(<<>>)]),
     Obj([resultSets |-> Arr(<<Obj([name |-> Str("GameHeader"), headers |-> NamedHeaders])>>)]),
     Obj([resultSets |-> Arr(<<Obj([name |-> Str("GameHeader"), rowSet |-> Obj(<<>>)])>>)]),
     Obj([resultSets |-> Arr(<<Obj([name |-> Str("GameHeader"), rowSet |-> Arr(<<>>)])>>)])}

HistoricalPayloads == HistoricalEmptyContainers \cup HistoricalTables

----------------------------------------------------------------------------
(* Dates: a Date is an instant, here in whole hours since the epoch.  The   *)
(* local calendar fields (getDate, getMonth, getFullYear) are those of the  *)
(* instant shifted by the timezone offset; toISOString gives the UTC ones.  *)

\* the civil date <<year, month, day>> of a day number (days since 1970-01-01)
CivilFromDays(z0) ==
    LET z == z0 + 719468
        era == z \div 146097
        doe == z - era * 146097
        yoe == (doe - doe \div 1460 + doe \div 36524 - doe \div 146096) \div 365
        doy == doe - (365 * yoe + yoe \div 4 - yoe \div 100)
        mp == (5 * doy + 2) \div 153
        d == doy - (153 * mp + 2) \div 5 + 1
        m == IF mp < 10 THEN mp + 3 ELSE mp - 9
        y == yoe + era * 400 + (IF m <= 2 THEN 1 ELSE 0)
    IN  <<y, m, d>>

\* the day number of a civil date
DaysFromCivil(y0, m, d) ==
    LET y == IF m <= 2 THEN y0 - 1 ELSE y0
        era == y \div 400
        yoe == y - era * 400
        doy == (153 * (IF m > 2 THEN m - 3 ELSE m + 9) + 2) \div 5 + d - 1
        doe == yoe * 365 + yoe \div 4 - yoe \div 100 + doy
    IN  era * 146097 + doe - 719468

\* String(n).padStart(2, '0')
Pad2(n) == IF n < 10 THEN "0" \o NatToStr(n) ELSE NatToStr(n)

LocalDay(date, offset) == (date + offset) \div 24
LocalHour(date, offset) == (date + offset) % 24
LocalCivil(date, offset) == CivilFromDays(LocalDay(date, offset))

\* date.toISOString().split('T')[0]: the UTC calendar date, YYYY-MM-DD
formatDate(date) ==
    LET c == CivilFromDays(date \div 24)
    IN  NatToStr(c[1]) \o "-" \o Pad2(c[2]) \o "-" \o Pad2(c[3])

\* date.getDate() === today.getDate() && getMonth ... && getFullYear ...
isToday(date, today, offset) ==
    LET d == LocalCivil(date, offset)
        t == LocalCivil(today, offset)
    IN  d[3] = t[3] /\ d[2] = t[2] /\ d[1] = t[1]

\* date.setDate(date.getDate() + days): the local calendar day moves, the local
\* time of day stays
setDate(date, days, offset) ==
    (LocalDay(date, offset) + days) * 24 + LocalHour(date, offset) - offset

\* new Date(value + 'T12:00:00'): local noon of the picked YYYY-MM-DD
pickedDate(value, offset) ==
    LET y == ParseInt(SubSeq(value, 1, 4)).n
        m == ParseInt(SubSeq(value, 6, 7)).n
        d == ParseInt(SubSeq(value, 9, 10)).n
    IN  DaysFromCivil(y, m, d) * 24 + 12 - offset

WeekdayNames == <<"Sun", "Mon", "Tue", "Wed", "Thu", "Fri", "Sat">>
MonthNames == <<"Jan", "Feb", "Mar", "Apr", "May", "Jun", "Jul", "Aug", "Sep", "Oct", "Nov",
                "Dec">>

\* date.toLocaleDateString('en-US', {weekday: 'short', month: 'short', day: 'numeric'})
getDisplayDate(date, offset) ==
    LET c == LocalCivil(date, offset)
    IN  WeekdayNames[((LocalDay(date, offset) + 4) % 7) + 1] \o ", " \o MonthNames[c[2]]
            \o " " \o NatToStr(c[3])

\* dateStr.replace(/-/g, '')
RECURSIVE RemoveDashes(_)
RemoveDashes(str) ==
    IF str = "" THEN ""
    ELSE (IF Char(str, 1) = "-" THEN "" ELSE Char(str, 1)) \o RemoveDashes(SubSeq(str, 2, Len(str)))

\* `${year}${month}${day}` of the local today (fetchLiveScoreboard)
liveDateStr(today, offset) ==
    LET c == LocalCivil(today, offset)
    IN  NatToStr(c[1]) \o Pad2(c[2]) \o Pad2(c[3])

----------------------------------------------------------------------------
(* The schedule controller (class NBAApp, src/app.js) *)

MaxLoads == 2
MaxClockSteps == 1

NotificationMs == 5000
SpinMs == 500
RefreshIntervalMs == 30000

\* the instant the page is opened: 2024-02-29 03:00 UTC
StartInstant == 19782 * 24 + 3

TzOffsets == {-5, 0}

\* the elements getElementById looks up (lines 10-18)
DomIds == {"grid", "dateDisplay", "datePicker", "prevBtn", "nextBtn", "refreshBtn", "template"}

FullPage == [id \in DomIds |-> TRUE]

\* getElementById results: the full page, a page without the card template, and
\* a document with none of the elements
DomShapes == {FullPage, [FullPage EXCEPT !.template = FALSE], [id \in DomIds |-> FALSE]}

LoadingState == [kind |-> "loading", cards |-> <<>>]
NoGamesState == [kind |-> "nogames", cards |-> <<>>]
StaticGrid == [kind |-> "static", cards |-> <<>>]

MockTeam(id, tri, name, score, wins, losses) ==
    [id |-> Num(id), tricode |-> Str(tri), name |-> Str(name), score |-> Num(score),
     wins |-> Num(wins), losses |-> Num(losses)]

getMockData ==
    << [id |-> Str("1"), status |-> Str("Final"), statusCode |-> Num(3), clock |-> Str("Final"),
        isLive |-> FALSE,
        home |-> MockTeam(1610612747, "LAL", "Lakers", 112, 20, 21),
        away |-> MockTeam(1610612738, "BOS", "Celtics", 109, 32, 10),
        leaders |-> [home |-> Obj([name |-> Str("L. James"), stat |-> Str("28 PTS, 9 REB, 6 AST")]),
                     away |-> Obj([name |-> Str("J. Tatum"), stat |-> Str("34 PTS, 9 REB, 6 AST")])]],
       [id |-> Str("2"), status |-> Str("Q4 2:30"), statusCode |-> Num(2), clock |-> Str("Q4 2:30"),
        isLive |-> TRUE,
        home |-> MockTeam(1610612744, "GSW", "Warriors", 98, 18, 20),
        away |-> MockTeam(1610612756, "PHX", "Suns", 101, 22, 15),
        leaders |-> [home |-> Obj([name |-> Str("S. Curry"), stat |-> Str("30 PTS, 9 REB, 6 AST")]),
                     away |-> Obj([name |-> Str("K. Durant"), stat |-> Str("25 PTS, 9 REB, 6 AST")])]] >>

\* (team.score || 0) as a number
ScoreOrZero(team) == IF Truthy(team.score) THEN team.score.n ELSE 0

\* a highlight that does not look at the status
WinnerOfAnyStatus(game) ==
    IF ScoreOrZero(game.home) > ScoreOrZero(game.away) THEN "home" ELSE "visitor"

\* the winner highlight of one card (lines 344-355)
WinnerOf(game) ==
    IF StrictEq(game.statusCode, Num(3))
    THEN (IF ScoreOrZero(game.home) > ScoreOrZero(game.away) THEN "home" ELSE "visitor")
    ELSE "none"

\* one rendered card
CardOf(game) ==
    [badge |-> IF game.isLive THEN "LIVE" ELSE ToStr(OrElse(game.status, Str(""))),
     clock |-> ToStr(OrElse(game.clock, Str(""))),
     home |-> ToStr(OrElse(OrElse(game.home.name, game.home.tricode), Str("Team"))),
     visitor |-> ToStr(OrElse(OrElse(game.away.name, game.away.tricode), Str("Team"))),
     winner |-> WinnerOf(game)]

\* render(): what the grid shows afterwards
render(d, gs, before) ==
    IF ~d.grid \/ ~d.template THEN before
    ELSE IF gs = <<>> THEN NoGamesState
    ELSE [kind |-> "cards", cards |-> [i \in DOMAIN gs |-> CardOf(gs[i])]]

\* updateDateDisplay(): the text of #current-date and the value of #date-picker
updateDateDisplay(d, date, today, offset, before) ==
    IF ~d.dateDisplay \/ ~d.datePicker THEN before
    ELSE [text |-> (IF isToday(date, today, offset) THEN "Today, " ELSE "")
                      \o getDisplayDate(date, offset),
          picker |-> formatDate(date)]

\* the innerHTML written by a load that is not silent
showLoading(d, silent, before) == IF ~silent /\ d.grid THEN LoadingState ELSE before

\* the request a load issues: the live reader for today, else the historical
\* reader for the formatted date
\* a load that always takes the live reader
requestOfLive(seq, finally, date, today, offset) ==
    [seq |-> seq, finally |-> finally, reader |-> "live",
     dates |-> liveDateStr(today, offset), phase |-> "fetch"]

\* `finally` names the callback the caller chained on the load's promise
requestOf(seq, finally, date, today, offset) ==
    IF isToday(date, today, offset)
    THEN [seq |-> seq, finally |-> finally, reader |-> "live",
          dates |-> liveDateStr(today, offset), phase |-> "fetch"]
    ELSE [seq |-> seq, finally |-> finally, reader |-> "historical",
          dates |-> RemoveDashes(formatDate(date)), phase |-> "fetch"]

\* what the history keeps of a finished request: its number, its reader, its
\* dates, and whether it ended in the try block ("loaded") or the catch block
\* ("failed")
Ended(r, how) == [seq |-> r.seq, reader |-> r.reader, dates |-> r.dates, outcome |-> how]

NoneEnded == [seq |-> 0, reader |-> "none", dates |-> "", outcome |-> "none"]

\* loadGames(silent) up to its first await, for the viewed date `date`
loadGames(silent, finally, date) ==
    /\ issued < MaxLoads
    /\ issued' = issued + 1
    /\ dateDisplay' = IF silent THEN dateDisplay
                      ELSE updateDateDisplay(dom, date, now, tz, dateDisplay)
    /\ grid' = showLoading(dom, silent, grid)
    /\ requests' = requests \cup {requestOf(issued + 1, finally, date, now, tz)}

\* what the scoreboard provider may answer for a dates= parameter
ProviderBodies(dates) ==
    { Obj([events |-> Arr(<<>>)]),
      Obj([events |-> Arr(<<FullEvent(dates, Str("112"), Num(109), "post",
                                      Arr(<<PointsCategory(Str("Points"), Str("Pts"), BothLeaders)>>))>>)]),
      Obj([events |-> Arr(<<FullEvent(dates, Str("98"), Str("101"), "in", Undef),
                            ESPNEvent(dates, Undef, Scheduled)>>)]) }

\* the timers a finished load leaves: the notice's removal after a failure, and
\* the refresh button's un-spin when the load came from the refresh click
timersAfter(r, failed) ==
    (IF failed THEN {[fn |-> "removeNotification", of |-> r.seq, delay |-> NotificationMs]}
     ELSE {})
    \cup (IF r.finally = "stopSpinning"
          THEN {[fn |-> "stopSpinning", of |-> r.seq, delay |-> SpinMs]} ELSE {})

\* the try block's end with a request-generation guard: a response that is not
\* the latest issued one is discarded
loadSucceededIfLatest(r, gamesData) ==
    /\ games' = IF r.seq = issued THEN gamesData ELSE games
    /\ grid' = IF r.seq = issued THEN render(dom, gamesData, grid) ELSE grid
    /\ notifications' = notifications
    /\ timers' = timers \cup timersAfter(r, FALSE)
    /\ shown' = IF r.seq = issued THEN Ended(r, "loaded") ELSE shown

\* this.games = gamesData; this.render()   (lines 132-133)
loadSucceeded(r, gamesData) ==
    /\ games' = gamesData
    /\ grid' = render(dom, gamesData, grid)
    /\ notifications' = notifications
    /\ timers' = timers \cup timersAfter(r, FALSE)
    /\ shown' = Ended(r, "loaded")

\* the catch block without its fallback: the notice is shown, the list is emptied
loadFailedWithoutMock(r) ==
    /\ games' = <<>>
    /\ grid' = render(dom, <<>>, grid)
    /\ notifications' = notifications \cup {r.seq}
    /\ timers' = timers \cup timersAfter(r, TRUE)
    /\ shown' = Ended(r, "failed")

\* the catch block of loadGames (lines 134-148)
loadFailed(r) ==
    /\ games' = getMockData
    /\ grid' = render(dom, getMockData, grid)
    /\ notifications' = notifications \cup {r.seq}
    /\ timers' = timers \cup timersAfter(r, TRUE)
    /\ shown' = Ended(r, "failed")

Settled(r) ==
    /\ requests' = requests \ {r}
    /\ UNCHANGED <<nvars, dom, tz, now, currentDate, dateDisplay, spinning, issued>>

ControllerInit ==
    /\ fn = "none" /\ input = Undef /\ output = Undef
    /\ dom \in DomShapes
    /\ tz \in TzOffsets
    /\ now = StartInstant
    /\ currentDate = StartInstant
    /\ games = <<>>
    /\ grid = showLoading(dom, FALSE, StaticGrid)
    /\ dateDisplay = updateDateDisplay(dom, StartInstant, StartInstant, tz,
                                       [text |-> "", picker |-> ""])
    /\ spinning = FALSE
    /\ requests = {requestOf(1, "none", StartInstant, StartInstant, tz)}
    /\ issued = 1
    /\ notifications = {}
    /\ timers = {[fn |-> "tick", of |-> 0, delay |-> RefreshIntervalMs]}
    /\ shown = NoneEnded

\* changeDate(days)
ChangeDate(days) ==
    /\ issued < MaxLoads
    /\ currentDate' = setDate(currentDate, days, tz)
    /\ loadGames(FALSE, "none", currentDate')
    /\ UNCHANGED <<nvars, dom, tz, now, games, spinning, notifications, timers, shown>>

\* prevBtn click
PrevDay == dom.prevBtn /\ ChangeDate(-1)

\* nextBtn click
NextDay == dom.nextBtn /\ ChangeDate(1)

\* the values the date picker can hand over: the day before the start, or ''
PickerValues == {"", "2024-02-28"}

\* datePicker change
DatePicked ==
    \E value \in PickerValues :
        /\ dom.datePicker
        /\ value # "" => issued < MaxLoads
        /\ IF value # ""
           THEN /\ currentDate' = pickedDate(value, tz)
                /\ loadGames(FALSE, "none", pickedDate(value, tz))
           ELSE UNCHANGED <<currentDate, issued, dateDisplay, grid, requests>>
        /\ UNCHANGED <<nvars, dom, tz, now, games, spinning, notifications, timers, shown>>

\* refreshBtn click
RefreshClicked ==
    /\ dom.refreshBtn
    /\ spinning' = TRUE
    /\ loadGames(FALSE, "stopSpinning", currentDate)
    /\ UNCHANGED <<nvars, dom, tz, now, currentDate, games, notifications, timers, shown>>

\* a timer that reloads whatever date is viewed
TickAlwaysLoads == TRUE

\* if (this.isToday(this.currentDate))   (line 37)
TickLoads == isToday(currentDate, now, tz)

\* the setInterval callback
Tick ==
    /\ \E t \in timers : t.fn = "tick"
    /\ TickLoads => issued < MaxLoads
    /\ IF TickLoads
       THEN loadGames(TRUE, "none", currentDate)
       ELSE UNCHANGED <<issued, dateDisplay, grid, requests>>
    /\ UNCHANGED <<nvars, dom, tz, now, currentDate, games, spinning, notifications, timers, shown>>

\* fetch(proxyUrl) rejects
FetchRejected ==
    \E r \in requests :
        /\ r.phase = "fetch"
        /\ loadFailed(r)
        /\ Settled(r)

\* fetch(proxyUrl) resolves with a response whose ok flag is false
ResponseNotOk ==
    \E r \in requests :
        /\ r.phase = "fetch"
        /\ loadFailed(r)
        /\ Settled(r)

\* fetch(proxyUrl) resolves with an ok response: response.json() is awaited
ResponseOk ==
    \E r \in requests :
        /\ r.phase = "fetch"
        /\ requests' = (requests \ {r}) \cup {[r EXCEPT !.phase = "json"]}
        /\ UNCHANGED <<nvars, dom, tz, now, currentDate, games, grid, dateDisplay, spinning,
                       issued, notifications, timers, shown>>

\* response.json() rejects: the body is not JSON
BodyNotJson ==
    \E r \in requests :
        /\ r.phase = "json"
        /\ loadFailed(r)
        /\ Settled(r)

\* response.json() resolves: the body is normalized, and the load ends
BodyParsed ==
    \E r \in requests :
        /\ r.phase = "json"
        /\ \E data \in ProviderBodies(r.dates) :
              LET gamesData == normalizeESPNGames(data)
              IN  IF gamesData.t = "return"
                  THEN loadSucceeded(r, gamesData.games)
                  ELSE loadFailed(r)
        /\ Settled(r)

\* setTimeout(() => notification.remove(), 5000) fires
NotificationTimeout ==
    \E t \in timers :
        /\ t.fn = "removeNotification"
        /\ notifications' = notifications \ {t.of}
        /\ timers' = timers \ {t}
        /\ UNCHANGED <<nvars, dom, tz, now, currentDate, games, grid, dateDisplay, spinning,
                       requests, issued, shown>>

\* setTimeout(() => refreshBtn.classList.remove('spinning'), 500) fires
SpinTimeout ==
    \E t \in timers :
        /\ t.fn = "stopSpinning"
        /\ spinning' = FALSE
        /\ timers' = timers \ {t}
        /\ UNCHANGED <<nvars, dom, tz, now, currentDate, games, grid, dateDisplay, requests,
                       issued, notifications, shown>>

\* the wall clock moves on by twelve hours
ClockAdvance ==
    /\ now < StartInstant + 12 * MaxClockSteps
    /\ now' = now + 12
    /\ UNCHANGED <<nvars, dom, tz, currentDate, games, grid, dateDisplay, spinning, requests,
                   issued, notifications, timers, shown>>

Next ==
    \/ PrevDay \/ NextDay \/ DatePicked \/ RefreshClicked \/ Tick
    \/ FetchRejected \/ ResponseNotOk \/ ResponseOk \/ BodyNotJson \/ BodyParsed
    \/ NotificationTimeout \/ SpinTimeout \/ ClockAdvance

Spec == ControllerInit /\ [][Next]_vars

----------------------------------------------------------------------------
(* The normalizers applied to every payload *)

\* the controller, idle, while a normalizer is applied on its own
ControllerIdle ==
    /\ dom = FullPage
    /\ tz = 0
    /\ now = StartInstant
    /\ currentDate = StartInstant
    /\ games = <<>>
    /\ grid = StaticGrid
    /\ dateDisplay = [text |-> "", picker |-> ""]
    /\ spinning = FALSE
    /\ requests = {}
    /\ issued = 0
    /\ notifications = {}
    /\ timers = {}
    /\ shown = NoneEnded

NormInit ==
    /\ ControllerIdle
    /\ fn = "none"
    /\ input \in [of : {"normalizeESPNGames"}, data : ESPNPayloads]
                 \cup [of : {"normalizeLiveGames"}, data : LivePayloads]
                 \cup [of : {"normalizeHistoricalGames"}, data : HistoricalPayloads]
    /\ output = Undef

ApplyESPN ==
    /\ fn = "none"
    /\ input.of = "normalizeESPNGames"
    /\ fn' = input.of
    /\ output' = normalizeESPNGames(input.data)
    /\ UNCHANGED <<input, cvars>>

ApplyLive ==
    /\ fn = "none"
    /\ input.of = "normalizeLiveGames"
    /\ fn' = input.of
    /\ output' = normalizeLiveGames(input.data)
    /\ UNCHANGED <<input, cvars>>

ApplyHistorical ==
    /\ fn = "none"
    /\ input.of = "normalizeHistoricalGames"
    /\ fn' = input.of
    /\ output' = normalizeHistoricalGames(input.data)
    /\ UNCHANGED <<input, cvars>>

NormNext == ApplyESPN \/ ApplyLive \/ ApplyHistorical

SpecNorm == NormInit /\ [][NormNext]_vars

----------------------------------------------------------------------------
(* Properties of the normalizers (checked under SpecNorm) *)

Applied == fn # "none"

\* the Games of the output, none when the normalizer threw or was not yet applied
OutGames == IF Applied /\ output.t = "return" THEN output.games ELSE <<>>

Sides == {"home", "away"}

\* the entries of the payload's container (events, games, header rows)
Entries(in) ==
    CASE in.of = "normalizeESPNGames" ->
            IF ESPNContainerOk(in.data) THEN Get(in.data, "events").a ELSE <<>>
      [] in.of = "normalizeLiveGames" -> LiveListOf(in.data).a
      [] OTHER ->
            IF in.data \in HistoricalTables
            THEN Get(At(Get(in.data, "resultSets"), 0), "rowSet").a ELSE <<>>

\* C1: every Game produced by a normalizer has statusCode 1, 2 or 3, whatever
\* the provider's status value is.
C1_StatusCodeInRange ==
    \A i \in DOMAIN OutGames : OutGames[i].statusCode \in {Num(1), Num(2), Num(3)}

MissingOrNonNumeric(v) == Nullish(v) \/ ToNumber(v).t # "number"

\* C2: every score of every produced Game is a number, and it is 0 when the
\* source score is absent, null or non-numeric (stated for the ESPN competitor
\* score, the field the current normalizer reads).
C2_ScoreDefaultsToZero ==
    /\ \A i \in DOMAIN OutGames : \A sd \in Sides : OutGames[i][sd].score.t = "number"
    /\ (Applied /\ input.of = "normalizeESPNGames" /\ output.t = "return") =>
          \A i \in DOMAIN OutGames : \A sd \in Sides :
              MissingOrNonNumeric(Get(EventSide(Entries(input)[i], sd), "score"))
                  => OutGames[i][sd].score = Num(0)

\* C3: in every produced Game, wins and losses of a side are both null or both
\* numbers.
C3_RecordsTravelTogether ==
    \A i \in DOMAIN OutGames : \A sd \in Sides :
        \/ OutGames[i][sd].wins = Null /\ OutGames[i][sd].losses = Null
        \/ OutGames[i][sd].wins.t = "number" /\ OutGames[i][sd].losses.t = "number"

\* C4: a payload whose container is present and whose entries are objects or
\* rows with fields missing never makes a normalizer throw: it returns one
\* Game per entry, each with a home and an away TeamResult.
C4_NeverThrowsOnIncomplete ==
    Applied =>
        /\ output.t = "return"
        /\ Len(output.games) = Len(Entries(input))
        /\ \A i \in DOMAIN output.games :
              output.games[i].home # Null /\ output.games[i].away # Null

LiveEmptyContainers == {Null, Undef, Arr(<<>>)}

EmptyContainersOf(of) ==
    CASE of = "normalizeESPNGames" -> ESPNEmptyContainers
      [] of = "normalizeLiveGames" -> LiveEmptyContainers
      [] OTHER -> HistoricalEmptyContainers

\* C5: an empty or absent container (null, {}, an events/resultSets value that
\* is not an array or is empty, a header set without an array rowSet, a
\* null/undefined/empty games list) normalizes to the empty Game sequence, and
\* nothing is thrown.
C5_EmptyContainerYieldsEmpty ==
    (Applied /\ input.data \in EmptyContainersOf(input.of)) => output = Returned(<<>>)

C5_Witness ==
    /\ Applied
    /\ input.of = "normalizeHistoricalGames"
    /\ input.data = Obj([resultSets |-> Arr(<<Obj([name |-> Str("GameHeader"),
                                                   headers |-> NamedHeaders])>>)])
    /\ output = Returned(<<>>)

\* the leader extraction of this event throws inside its try block
LeaderFails(event) ==
    /\ EventComp(event).t = "object"
    /\ LeadersTry(EventComp(event), EventSide(event, "home"), EventSide(event, "away")) = Threw

\* the event with the leader data of its competition removed
WithoutLeaders(event) ==
    Obj([event.o EXCEPT !.competitions =
            Arr([@.a EXCEPT ![1] = Obj([@.o EXCEPT !.leaders = Undef])])])

\* the payload with the leader data removed from the events whose extraction fails
WithoutFailingLeaders(data) ==
    IF ~ESPNContainerOk(data) THEN data
    ELSE Obj([data.o EXCEPT !.events =
                Arr([i \in DOMAIN @.a |->
                        IF LeaderFails(@.a[i]) THEN WithoutLeaders(@.a[i]) ELSE @.a[i]])])

\* C6: a failure while extracting the leaders of an event never aborts
\* normalizeESPNGames: the outcome is the one the payload gives with that
\* event's leader data removed (the same number of Games in the same
\* positions, every field equal), and the failing event's Game has no leaders.
C6_LeaderFailureIsLocal ==
    (Applied /\ input.of = "normalizeESPNGames") =>
        LET base == normalizeESPNGames(WithoutFailingLeaders(input.data))
        IN  /\ output = base
            /\ \A i \in DOMAIN OutGames :
                  LeaderFails(Entries(input)[i]) => OutGames[i].leaders = NoLeaders
            /\ (\A i \in DOMAIN Entries(input) : Entries(input)[i] \in CompleteEvents)
                  => output.t = "return" /\ Len(output.games) = Len(Entries(input))

C6_Witness ==
    /\ Applied
    /\ input.of = "normalizeESPNGames"
    /\ Len(Entries(input)) = 2
    /\ LeaderFails(Entries(input)[1])
    /\ ~LeaderFails(Entries(input)[2])
    /\ output.t = "return"
    /\ Len(output.games) = 2
    /\ output.games[2].leaders.home # Null

----------------------------------------------------------------------------
(* The claims about the schedule controller *)

\* a load has just ended in the catch block
LoadJustFailed == shown' # shown /\ shown'.outcome = "failed"

\* the removal timer of the notice of load n
RemovalTimer(n) == [fn |-> "removeNotification", of |-> n, delay |-> NotificationMs]

\* C7: whenever a load fails (the fetch rejects, the status is not OK, the body
\* is not JSON, or the normalizer throws), the load ends with games set to
\* exactly the two-game mock list, render called on it, and a notice in the page
\* whose removal is scheduled 5000 ms later; a notice stays in the page only
\* while its removal timer is pending and leaves when that timer fires.
C7_FailedLoadFallsBackToMock ==
    /\ [][LoadJustFailed =>
            /\ games' = getMockData
            /\ Len(games') = 2
            /\ grid' = render(dom, getMockData, grid)
            /\ shown'.seq \in notifications'
            /\ RemovalTimer(shown'.seq) \in timers'
            /\ \A r \in requests' : r.seq # shown'.seq]_vars
    /\ [](\A n \in notifications : RemovalTimer(n) \in timers)
    /\ [][\A t \in timers \ timers' :
            t.fn = "removeNotification" => t.of \notin notifications']_vars

\* C7 happens: a load has ended in the catch block, the grid shows the two mock
\* cards and the notice is in the page
C7_Witness ==
    /\ shown.outcome = "failed"
    /\ games = getMockData
    /\ grid.kind = "cards" /\ Len(grid.cards) = 2
    /\ grid.cards[1].home = "Lakers" /\ grid.cards[2].badge = "LIVE"
    /\ shown.seq \in notifications
    /\ requests = {}

\* C8: whenever no load is in flight, the grid does not show the loading state.
\* Violated on a page that has #games-grid but not #game-card-template: the
\* load writes the loading markup and render returns before replacing it.
C8_NeverStuckLoading == requests = {} => grid.kind # "loading"

\* the requests that leave the set of loads in flight in this step
Ending == {r \in requests : \A q \in requests' : q.seq # r.seq}

\* the list comes from the answer to r: it is the mock list, or each of its
\* games carries the dates r asked for
AnswersTo(list, r) == list = getMockData \/ \A i \in DOMAIN list : list[i].id = Str(r.dates)

\* C9: there is no cancellation and no generation guard: every response, one
\* of a load older than the most recently issued one included, overwrites games
\* with the outcome of its own request and re-renders.
C9_LastResponseWins ==
    [][\A r \in Ending :
          /\ shown'.seq = r.seq /\ shown'.dates = r.dates
          /\ grid' = render(dom, games', grid)
          /\ AnswersTo(games', r)]_vars

\* C9 happens: no load is in flight, and the grid shows the games of a load
\* issued before the most recent one, for other dates than the viewed one
C9_Witness ==
    /\ requests = {}
    /\ shown.seq < issued
    /\ shown.outcome = "loaded"
    /\ games # <<>>
    /\ games[1].id = Str(shown.dates)
    /\ shown.dates # requestOf(0, "none", currentDate, now, tz).dates
    /\ grid.kind = "cards"

\* the viewed date is today: same local calendar day as the wall clock
ViewingToday == LocalDay(currentDate, tz) = LocalDay(now, tz)

\* C10: a timer tick issues a request if and only if the viewed date is today;
\* a tick on another date leaves games, the grid, the date display and the
\* requests in flight unchanged; and a tick's load is silent: it changes neither
\* the grid nor the date display when it starts.
C10_TickLoadsOnlyToday ==
    [][Tick =>
          /\ (requests' # requests) <=> ViewingToday
          /\ ViewingToday => Cardinality(requests') = Cardinality(requests) + 1
          /\ ~ViewingToday => UNCHANGED <<games, grid, dateDisplay, requests>>
          /\ UNCHANGED <<games, grid, dateDisplay>>]_vars

\* C10 happens: after the first load was rendered, a tick has started the second
\* load for today (the viewed date is untouched, nothing is chained on the
\* request), and the grid still shows the cards
C10_Witness ==
    /\ \E r \in requests : r.seq = 2 /\ r.finally = "none" /\ r.reader = "live"
    /\ currentDate = StartInstant
    /\ shown.seq = 1
    /\ grid.kind = "cards"
    /\ dom.grid /\ dom.template

\* the dates= strings a request can carry: the days around the start
DatesPool ==
    {RemoveDashes(formatDate(d * 24)) :
        d \in (StartInstant \div 24 - MaxLoads - MaxClockSteps - 1)
              ..(StartInstant \div 24 + MaxLoads + MaxClockSteps + 1)}

\* what the normalizer returns for the answers to each dates= string
NormalizedAnswers ==
    [d \in DatesPool |->
        {res.games : res \in {x \in {normalizeESPNGames(b) : b \in ProviderBodies(d)} :
                                 x.t = "return"}}]

\* the requests this step has started
Started == {r \in requests' : \A q \in requests : q.seq # r.seq}

\* C11: every loadGames call issues exactly one request, to the live reader
\* when the viewed date's local day, month and year are today's and to the
\* historical reader, with the formatted viewed date, otherwise; when a request
\* succeeds, games becomes exactly the normalizer's output for an answer to it
\* and render is called on that list.
C11_OneRequestPerLoad ==
    /\ [][issued' # issued =>
            /\ issued' = issued + 1
            /\ Cardinality(Started) = 1
            /\ \A r \in Started :
                  /\ r.seq = issued' /\ r.phase = "fetch"
                  /\ r.reader = IF LocalCivil(currentDate', tz) = LocalCivil(now, tz)
                                THEN "live" ELSE "historical"
                  /\ r.reader = "historical"
                        => r.dates = RemoveDashes(formatDate(currentDate'))
                  /\ r.reader = "live" => r.dates = liveDateStr(now, tz)]_vars
    /\ [][issued' = issued => Started = {}]_vars
    /\ [][(shown' # shown /\ shown'.outcome = "loaded") =>
            /\ games' \in NormalizedAnswers[shown'.dates]
            /\ grid' = render(dom, games', grid)]_vars

\* C11 happens: a request to the historical reader for a date other than today
\* has succeeded, and the grid shows its one game in place of the earlier list
C11_Witness ==
    /\ shown.outcome = "loaded"
    /\ shown.reader = "historical"
    /\ shown.seq = 2
    /\ Len(games) = 1
    /\ games[1].id = Str(shown.dates)
    /\ grid.kind = "cards" /\ Len(grid.cards) = 1

----------------------------------------------------------------------------
(* More claims about the normalizers *)

\* C12: every Game a normalizer produces, and every Game of the mock dataset,
\* has isLive true exactly when its statusCode is 2.
C12_IsLiveIffStatusTwo ==
    /\ \A i \in DOMAIN OutGames : OutGames[i].isLive = (OutGames[i].statusCode = Num(2))
    /\ \A i \in DOMAIN getMockData :
          getMockData[i].isLive = (getMockData[i].statusCode = Num(2))

\* C12 happens: a normalizer has produced a live Game next to one that is not
C12_Witness ==
    /\ Applied
    /\ \E i \in DOMAIN OutGames : OutGames[i].isLive /\ OutGames[i].statusCode = Num(2)
    /\ \E i \in DOMAIN OutGames : ~OutGames[i].isLive /\ OutGames[i].statusCode = Num(3)

\* the largest number of wins or losses the record check spells out
MaxRecord == 32

\* the record cells <<home, away>> of the i-th header row of a historical input
RecordCellsOf(in, i) ==
    LET headerSet == At(Get(in.data, "resultSets"), 0)
        headers == OrElse(Get(headerSet, "headers"), Arr(<<>>))
        col == HistoricalColumns(headers.a, <<>>)
        row == Entries(in)[i]
    IN  <<At(row, col.homeRecIdx), At(row, col.awayRecIdx)>>

\* a cell that holds no record: missing, empty, not a string, or without "-"
NoRecordIn(cell) ==
    \/ Nullish(cell)
    \/ cell = Str("")
    \/ ~IsString(cell)
    \/ IsString(cell) /\ \A k \in 1..Len(cell.s) : Char(cell.s, k) # "-"

\* what C14 asks of one team of one Game, given the cell its record came from
RecordAsClaimed(cell, team) ==
    /\ \A w, l \in 0..MaxRecord :
          cell = Str(NatToStr(w) \o "-" \o NatToStr(l))
              => team.wins = Num(w) /\ team.losses = Num(l)
    /\ NoRecordIn(cell) => team.wins = Null /\ team.losses = Null

\* C14: in normalizeHistoricalGames a record cell "W-L" of two decimal integers
\* gives wins = W and losses = L ("20-10" gives 20 and 10), and a missing, empty,
\* non-string or separator-free cell ("abc") gives wins = null and losses = null.
C14_RecordParsing ==
    (Applied /\ input.of = "normalizeHistoricalGames") =>
        \A i \in DOMAIN OutGames :
            /\ RecordAsClaimed(RecordCellsOf(input, i)[1], OutGames[i].home)
            /\ RecordAsClaimed(RecordCellsOf(input, i)[2], OutGames[i].away)

\* C14 happens: one historical answer holds a Game whose records were parsed
\* from "20-21" and "32-10" and a Game whose home record "abc" gave nulls
C14_Witness ==
    /\ Applied /\ input.of = "normalizeHistoricalGames"
    /\ \E i, j \in DOMAIN OutGames :
          /\ RecordCellsOf(input, i) = <<Str("20-21"), Str("32-10")>>
          /\ OutGames[i].home.wins = Num(20) /\ OutGames[i].home.losses = Num(21)
          /\ OutGames[i].away.wins = Num(32) /\ OutGames[i].away.losses = Num(10)
          /\ RecordCellsOf(input, j)[1] = Str("abc")
          /\ OutGames[j].home.wins = Null /\ OutGames[j].home.losses = Null

\* the source entries of an input, in the order of the payload: the events, the
\* games of the list, the rows of the GameHeader result set
SourceEntries(in) ==
    CASE in.of = "normalizeESPNGames" ->
            IF in.data \in ESPNEmptyContainers THEN <<>> ELSE Get(in.data, "events").a
      [] in.of = "normalizeLiveGames" ->
            IF in.data \in LiveEmptyContainers THEN <<>> ELSE in.data.a
      [] OTHER ->
            IF in.data \in HistoricalEmptyContainers THEN <<>>
            ELSE Get(At(Get(in.data, "resultSets"), 0), "rowSet").a

\* the payload of an input cut down to its i-th source entry
OnlyEntry(in, i) ==
    CASE in.of = "normalizeESPNGames" ->
            Obj([in.data.o EXCEPT !.events = Arr(<<@.a[i]>>)])
      [] in.of = "normalizeLiveGames" -> Arr(<<in.data.a[i]>>)
      [] OTHER ->
            Obj([in.data.o EXCEPT !.resultSets =
                    Arr([@.a EXCEPT ![1] = Obj([@.o EXCEPT !.rowSet = Arr(<<@.a[i]>>)])])])

NormalizerOf(of, data) ==
    CASE of = "normalizeESPNGames" -> normalizeESPNGames(data)
      [] of = "normalizeLiveGames" -> normalizeLiveGames(data)
      [] OTHER -> normalizeHistoricalGames(data)

\* C17: the normalizers preserve the order and the number of the source
\* entries: a payload of n events, games or rows that the normalizer reads
\* gives exactly n Games, the i-th Game being the Game of the i-th entry
\* (the one the entry gives as the only entry of the payload); nothing is
\* reordered, dropped or de-duplicated.  The normalizer throws only when one
\* of the entries alone makes it throw.
C17_OrderAndCardinality ==
    Applied =>
        LET entries == SourceEntries(input)
            alone == [i \in DOMAIN entries |-> NormalizerOf(input.of, OnlyEntry(input, i))]
        IN  IF \A i \in DOMAIN entries : alone[i].t = "return"
            THEN /\ output.t = "return"
                 /\ Len(output.games) = Len(entries)
                 /\ \A i \in DOMAIN entries : alone[i].games = <<output.games[i]>>
            ELSE output = Threw

\* C17 happens: two different source entries with the same id, in one payload,
\* have given two different Games with that id, in the order of the payload
C17_Witness ==
    /\ Applied /\ Len(SourceEntries(input)) = 2 /\ Len(OutGames) = 2
    /\ OutGames[1].id = OutGames[2].id
    /\ OutGames[1] # OutGames[2]
    /\ NormalizerOf(input.of, OnlyEntry(input, 1)).games = <<OutGames[1]>>
    /\ NormalizerOf(input.of, OnlyEntry(input, 2)).games = <<OutGames[2]>>

\* comp.leaders with a points category that names a leader with an athlete for
\* the home team (id 13) and one for the away team (id 2)
WithBothLeaders ==
    { Arr(<<PointsCategory(Str("Points"), Str("Pts"), BothLeaders)>>),
      Arr(<<PointsCategory(Str("rebounds"), Str("Reb"), BothLeaders),
            PointsCategory(Str("points"), Undef, BothLeaders)>>) }

\* C19: when the points category of an event holds a leader entry with an
\* athlete for the home team and one for the away team, the Game's
\* leaders.home is {name: shortName, stat: displayValue} of the home entry and
\* leaders.away is the same of the away entry; neither is null.
C19_BothLeadersExtracted ==
    (Applied /\ input.of = "normalizeESPNGames") =>
        \A i \in DOMAIN OutGames :
            LET event == Entries(input)[i]
            IN  (/\ event \in CompleteEvents
                 /\ Get(EventComp(event), "leaders") \in WithBothLeaders)
                    => /\ OutGames[i].leaders.home
                            = Obj([name |-> Str("L. James"), stat |-> Str("28")])
                       /\ OutGames[i].leaders.away
                            = Obj([name |-> Str("J. Tatum"), stat |-> Str("34")])

\* the zero-based position of the first header whose lower-cased name is
\* `lowered`, or `legacy` when no header has that name
NamedOrLegacy(set, lowered, legacy) ==
    LET names == IF set = Null \/ ~IsArray(Get(set, "headers")) THEN <<>>
                 ELSE Get(set, "headers").a
        named == {k \in DOMAIN names : ToLowerCase(ToStr(names[k])) = lowered}
    IN  IF named = {} THEN legacy
        ELSE (CHOOSE k \in named : \A j \in named : k <= j) - 1

\* the line-score result set of a historical table, Null when it has none
LineScoreOf(data) ==
    LET sets == Get(data, "resultSets").a
    IN  IF Len(sets) >= 2 THEN sets[2] ELSE Null

\* the PTS cell C21 points at for the i-th header row and one side of a
\* historical input: <<found, cell>>
PtsCellOf(in, i, side) ==
    LET headerSet == Get(in.data, "resultSets").a[1]
        lineSet == LineScoreOf(in.data)
        row == Get(headerSet, "rowSet").a[i]
        gameId == At(row, NamedOrLegacy(headerSet, "game_id", 2))
        teamId == IF side = "home"
                  THEN At(row, NamedOrLegacy(headerSet, "home_team_id", 6))
                  ELSE At(row, NamedOrLegacy(headerSet, "visitor_team_id", 7))
        lines == IF lineSet = Null THEN <<>> ELSE Get(lineSet, "rowSet").a
        matching == {k \in DOMAIN lines :
                        /\ ToStr(At(lines[k], 2)) = ToStr(gameId)
                        /\ ToStr(At(lines[k], 3)) = ToStr(teamId)}
        first == CHOOSE k \in matching : \A j \in matching : k <= j
    IN  IF matching = {} THEN <<FALSE, Undef>>
        ELSE <<TRUE, At(lines[first], NamedOrLegacy(lineSet, "pts", 22))>>

\* what C21 asks of one score, given the cell it points at
ScoreAsClaimed(cell, score) ==
    /\ ~cell[1] => score = Num(0)
    /\ cell[1] /\ cell[2].t = "number" => score = cell[2]
    /\ cell[1] /\ cell[2] = Str("109") => score = Num(109)

C21_WitnessFirstOfTwo ==
    /\ Applied /\ input.of = "normalizeHistoricalGames"
    /\ input.data = LegacyTable(<<StringIdCells>>, LookupLines(LegacyPts, Undef))
    /\ \E i \in DOMAIN OutGames :
          /\ OutGames[i].id = GameA
          /\ OutGames[i].home.score = Num(112)
          /\ OutGames[i].away.score = Num(109)

----------------------------------------------------------------------------
(* Date navigation in a timezone with daylight-saving time.  A zone has a   *)
(* standard and a daylight offset (hours east of UTC) and the two instants  *)
(* between which the daylight offset applies.                               *)

MaxDaySteps == 2

Offset(zone, t) == IF zone.start <= t /\ t < zone.end THEN zone.dst ELSE zone.std

\* the local wall-clock time of an instant (LocalTime of ECMAScript)
LocalTimeIn(zone, t) == t + Offset(zone, t)

LocalDayIn(zone, t) == LocalTimeIn(zone, t) \div 24

\* the instant of a local wall-clock time (UTC of ECMAScript): the earlier
\* instant when the wall time happens twice, and the instant read with the
\* offset before the transition when the wall time is skipped
UTCOf(zone, wall) ==
    LET hits == {t \in {wall - zone.dst, wall - zone.std} : LocalTimeIn(zone, t) = wall}
    IN  IF hits = {} THEN wall - zone.std
        ELSE CHOOSE t \in hits : \A u \in hits : t <= u

\* a navigation that adds 24 hours per day to the instant
setDateBy24h(zone, date, days) == date + 24 * days

\* date.setDate(date.getDate() + days) in a zone: the day of the month moves
\* (MakeDay carries an overflow into the next month or year), the local time of
\* day is kept, and the wall time is read back as an instant
setDateIn(zone, date, days) ==
    LET local == LocalTimeIn(zone, date)
        c == CivilFromDays(local \div 24)
        day == DaysFromCivil(c[1], c[2], 1) + (c[3] + days) - 1
    IN  UTCOf(zone, day * 24 + (local % 24))

\* US Eastern time 2024: clocks go 02:00 -> 03:00 on March 10 and 02:00 ->
\* 01:00 on November 3
Eastern ==
    [std |-> -5, dst |-> -4,
     start |-> DaysFromCivil(2024, 3, 10) * 24 + 7, end |-> DaysFromCivil(2024, 11, 3) * 24 + 6]

\* Brasilia time 2018-19: clocks go 00:00 -> 01:00 on November 4 and 00:00 ->
\* 23:00 of the day before on February 17
Brasilia ==
    [std |-> -3, dst |-> -2,
     start |-> DaysFromCivil(2018, 11, 4) * 24 + 3, end |-> DaysFromCivil(2019, 2, 17) * 24 + 2]

\* zones without daylight-saving time
FixedZone(offset) == [std |-> offset, dst |-> offset, start |-> 0, end |-> 0]

Zones == {Eastern, Brasilia, FixedZone(0), FixedZone(14)}

\* the local days a navigation starts from: around the zone's transitions, at
\* the end of February of a leap year, and at the end of a year
StartDays(zone) ==
    {LocalDayIn(zone, zone.start) - 1, LocalDayIn(zone, zone.start),
     LocalDayIn(zone, zone.end) - 1, LocalDayIn(zone, zone.end),
     DaysFromCivil(2024, 2, 28), DaysFromCivil(2018, 12, 31)}

\* this.currentDate before the navigation: any hour of a start day
StartDates(zone) == {UTCOf(zone, d * 24 + h) : d \in StartDays(zone), h \in 0..23}

DatesInit ==
    /\ ControllerIdle
    /\ fn = "changeDate"
    /\ input \in UNION {[zone : {z}, date : StartDates(z)] : z \in Zones}
    /\ output = [date |-> input.date, forward |-> 0, back |-> 0]

\* changeDate(1), while no step back was taken
ChangeDateForward ==
    /\ output.back = 0
    /\ output.forward < MaxDaySteps
    /\ output' = [output EXCEPT !.date = setDateIn(input.zone, output.date, 1),
                                !.forward = output.forward + 1]
    /\ UNCHANGED <<fn, input, cvars>>

\* changeDate(-1), until the steps forward are undone
ChangeDateBack ==
    /\ output.back < output.forward
    /\ output' = [output EXCEPT !.date = setDateIn(input.zone, output.date, -1),
                                !.back = output.back + 1]
    /\ UNCHANGED <<fn, input, cvars>>

DatesNext == ChangeDateForward \/ ChangeDateBack

SpecDates == DatesInit /\ [][DatesNext]_vars

\* C13: changeDate(+1) and changeDate(-1) move the local calendar date by
\* exactly one day, from every hour of the day, across month ends, year ends and
\* daylight-saving transitions; k steps forward and k steps back return to the
\* calendar date the navigation started from.
C13_ChangeDateMovesOneDay ==
    LocalDayIn(input.zone, output.date)
        = LocalDayIn(input.zone, input.date) + output.forward - output.back

\* C13 happens: one step forward into the skipped hour of a daylight-saving
\* transition and one step back end on the calendar day they started from, at
\* another time of day
C13_Witness ==
    /\ output.forward = 1 /\ output.back = 1
    /\ input.zone.std # input.zone.dst
    /\ output.date # input.date
    /\ LocalDayIn(input.zone, output.date) = LocalDayIn(input.zone, input.date)

\* the local calendar day of a date, as YYYY-MM-DD
LocalIsoDay(date, offset) ==
    LET c == LocalCivil(date, offset)
    IN  NatToStr(c[1]) \o "-" \o Pad2(c[2]) \o "-" \o Pad2(c[3])

\* C20: the date the controller requests is the date it shows: the string
\* formatDate(currentDate), written to the date picker and sent (without its
\* dashes) as dates= by the historical reader, names the local calendar day of
\* currentDate that isToday and the date display use, in every timezone and at
\* every time of day; the live request carries that same local day.
C20_RequestedDateIsShownDate ==
    fn = "none" =>
        /\ formatDate(currentDate) = LocalIsoDay(currentDate, tz)
        /\ dom.datePicker /\ dom.dateDisplay =>
              dateDisplay.picker = LocalIsoDay(currentDate, tz)
        /\ \A r \in requests :
              r.seq = issued => r.dates = RemoveDashes(LocalIsoDay(currentDate, tz))

----------------------------------------------------------------------------
(* The relay (src/winter-sky-692e/src/worker.js): one invocation of the    *)
(* fetch handler.  input is the incoming request; output holds the          *)
(* handler's position, the outbound fetches it has made, how the outbound   *)
(* fetch ended, and the replies it has returned.                            *)

RelayMethods == {"OPTIONS", "GET", "HEAD", "POST"}

RelayPaths == {"/", "/proxy/scoreboard"}

ScoreboardUrl == "https://site.api.espn.com/scoreboard?dates=20240229"

\* the decoded query strings of the incoming requests, as <<name, value>> pairs
RelayQueries ==
    { <<>>,
      << <<"url", "">> >>,
      << <<"URL", ScoreboardUrl>> >>,
      << <<"url", ScoreboardUrl>> >>,
      << <<"url", "not a url">> >>,
      << <<"cb", "1">>, <<"url", ScoreboardUrl>> >>,
      << <<"cb", "1">> >> }

RelayRequests == [method : RelayMethods, path : RelayPaths, query : RelayQueries]

\* url.searchParams.get(name): the first value under that name, or null
RECURSIVE searchParamsGet(_, _)
searchParamsGet(query, name) ==
    IF query = <<>> THEN Null
    ELSE IF Head(query)[1] = name THEN Str(Head(query)[2])
    ELSE searchParamsGet(Tail(query), name)

\* a test that lets an empty url parameter through
MissingTargetIfNull(target) == target = Null

\* if (!target)
MissingTarget(target) == ~Truthy(target)

\* headers.set(name, value) on a Headers object; names are kept in lower case
HeadersSet(headers, name, value) ==
    [k \in DOMAIN headers \cup {name} |-> IF k = name THEN value ELSE headers[k]]

NoHeaders == [k \in {} |-> ""]

\* the statuses a Response may not carry a body with
NullBodyStatus(status) == status \in {101, 204, 205, 304}

\* new Response(body, {status, headers}): a TypeError for a body that is not
\* empty under a null-body status, a RangeError for a status outside 200..599
NewResponse(body, status, headers) ==
    IF status < 200 \/ status > 599 THEN [t |-> "throw", name |-> "RangeError",
                                          message |-> "Invalid status code"]
    ELSE IF NullBodyStatus(status) /\ body # ""
    THEN [t |-> "throw", name |-> "TypeError",
          message |-> "Response with null body status cannot have a body."]
    ELSE [t |-> "response", status |-> status, body |-> body, headers |-> headers]

\* String(err) for an Error: its name, then ": " and its message when it has one
ErrorText(err) == IF err.message = "" THEN err.name ELSE err.name \o ": " \o err.message

\* lines 15-22
PreflightReply ==
    [t |-> "response", status |-> 204, body |-> "",
     headers |-> [k \in {"access-control-allow-origin", "access-control-allow-methods",
                         "access-control-allow-headers"} |->
                     IF k = "access-control-allow-methods" THEN "GET,HEAD,POST,OPTIONS"
                     ELSE "*"]]

\* the headers a Response gets from a string body
TextHeaders == [k \in {"content-type"} |-> "text/plain;charset=UTF-8"]

\* line 28
MissingUrlReply ==
    [t |-> "response", status |-> 400, body |-> "Missing url parameter",
     headers |-> TextHeaders]

\* line 63
FailedReply(err) ==
    [t |-> "response", status |-> 502, body |-> "Proxy fetch failed: " \o ErrorText(err),
     headers |-> TextHeaders]

\* a relayed reply that always reports success
ForwardedAsOk(resp, body) ==
    NewResponse(body, 200,
        HeadersSet(HeadersSet(HeadersSet(resp.headers,
            "access-control-allow-origin", "*"),
            "access-control-allow-methods", "GET,HEAD,POST,OPTIONS"),
            "cache-control", "max-age=15"))

\* lines 53-61: the upstream headers with three of them set, the upstream status
Forwarded(resp, body) ==
    NewResponse(body, resp.status,
        HeadersSet(HeadersSet(HeadersSet(resp.headers,
            "access-control-allow-origin", "*"),
            "access-control-allow-methods", "GET,HEAD,POST,OPTIONS"),
            "cache-control", "max-age=15"))

\* what the upstream may send
UpstreamHeaders ==
    { NoHeaders,
      [k \in {"content-type", "cache-control"} |->
          IF k = "content-type" THEN "application/json" ELSE "no-store"],
      [k \in {"access-control-allow-origin", "cache-control", "etag"} |->
          CASE k = "access-control-allow-origin" -> "https://www.espn.com"
            [] k = "cache-control" -> "max-age=3600"
            [] OTHER -> "W/1"] }

UpstreamBodies == {"", "{\"events\":[]}", "Not Found"}

\* the responses the outbound fetch may resolve with: a null-body status comes
\* with an empty body
UpstreamResponses ==
    { r \in [status : {200, 204, 404, 500}, body : UpstreamBodies, headers : UpstreamHeaders] :
         NullBodyStatus(r.status) => r.body = "" }

\* the errors the outbound fetch or the reading of its body may reject with
FetchErrors ==
    { [name |-> "TypeError", message |-> "Invalid URL"],
      [name |-> "Error", message |-> "Network connection lost."],
      [name |-> "Error", message |-> ""] }

NotFetched == [t |-> "none"]

RelayInit ==
    /\ ControllerIdle
    /\ fn = "relay"
    /\ input \in RelayRequests
    /\ output = [pc |-> "start", fetches |-> <<>>, upstream |-> NotFetched, replies |-> <<>>]

RelayStep(pc, fetches, upstream, replies) ==
    /\ output' = [pc |-> pc, fetches |-> fetches, upstream |-> upstream, replies |-> replies]
    /\ UNCHANGED <<fn, input, cvars>>

Return(reply) == RelayStep("done", output.fetches, output.upstream, Append(output.replies, reply))

\* lines 14-23
Preflight ==
    /\ output.pc = "start"
    /\ input.method = "OPTIONS"
    /\ Return(PreflightReply)

\* lines 25-29
RejectMissingUrl ==
    /\ output.pc = "start"
    /\ input.method # "OPTIONS"
    /\ MissingTarget(searchParamsGet(input.query, "url"))
    /\ Return(MissingUrlReply)

\* line 43: fetch(target, ...) is called
OutboundFetch ==
    /\ output.pc = "start"
    /\ input.method # "OPTIONS"
    /\ ~MissingTarget(searchParamsGet(input.query, "url"))
    /\ RelayStep("fetching", Append(output.fetches, searchParamsGet(input.query, "url").s),
                 output.upstream, output.replies)

\* await fetch(...) rejects: the catch block replies
FetchThrows ==
    \E err \in FetchErrors :
        /\ output.pc = "fetching"
        /\ RelayStep("done", output.fetches, [t |-> "threw", error |-> err],
                     Append(output.replies, FailedReply(err)))

\* await fetch(...) resolves with the upstream response
FetchResolves ==
    \E resp \in UpstreamResponses :
        /\ output.pc = "fetching"
        /\ RelayStep("body", output.fetches, [t |-> "headers", resp |-> resp], output.replies)

\* await resp.arrayBuffer() rejects: the catch block replies
BodyReadThrows ==
    \E err \in FetchErrors :
        /\ output.pc = "body"
        /\ RelayStep("done", output.fetches, [t |-> "threw", error |-> err],
                     Append(output.replies, FailedReply(err)))

\* await resp.arrayBuffer() resolves: lines 53-61, or the catch block when the
\* Response cannot be constructed
BodyRead ==
    /\ output.pc = "body"
    /\ LET resp == output.upstream.resp
           made == Forwarded(resp, resp.body)
       IN  IF made.t = "throw"
           THEN RelayStep("done", output.fetches,
                          [t |-> "threw", error |-> [name |-> made.name, message |-> made.message]],
                          Append(output.replies,
                                 FailedReply([name |-> made.name, message |-> made.message])))
           ELSE RelayStep("done", output.fetches, [t |-> "completed", resp |-> resp],
                          Append(output.replies, made))

RelayNext ==
    \/ Preflight \/ RejectMissingUrl \/ OutboundFetch
    \/ FetchThrows \/ FetchResolves \/ BodyReadThrows \/ BodyRead

SpecRelay == RelayInit /\ [][RelayNext]_vars

\* the request is one the relay forwards
IsForwarded(req) ==
    /\ req.method # "OPTIONS"
    /\ \E i \in DOMAIN req.query : req.query[i][1] = "url" /\ req.query[i][2] # ""

\* the url parameter of a request, "" when there is none
UrlOf(req) ==
    IF \E i \in DOMAIN req.query : req.query[i][1] = "url"
    THEN req.query[CHOOSE i \in DOMAIN req.query : req.query[i][1] = "url"][2]
    ELSE ""

Replied == output.pc = "done"

Reply == output.replies[1]

\* C15: an OPTIONS request is answered with 204 and the three CORS headers,
\* whatever its path and query, and makes no outbound fetch; any other request
\* whose url parameter is missing or empty is answered with 400 and the body
\* "Missing url parameter", and makes no outbound fetch.
C15_PreflightAndMissingUrl ==
    /\ fn = "relay" /\ input.method = "OPTIONS" =>
          /\ output.fetches = <<>>
          /\ Replied =>
                /\ Reply.status = 204
                /\ DOMAIN Reply.headers = {"access-control-allow-origin",
                                           "access-control-allow-methods",
                                           "access-control-allow-headers"}
                /\ Reply.headers["access-control-allow-origin"] = "*"
                /\ Reply.headers["access-control-allow-methods"] = "GET,HEAD,POST,OPTIONS"
                /\ Reply.headers["access-control-allow-headers"] = "*"
    /\ fn = "relay" /\ input.method # "OPTIONS" /\ UrlOf(input) = "" =>
          /\ output.fetches = <<>>
          /\ Replied => Reply.status = 400 /\ Reply.body = "Missing url parameter"

\* C15 happens: an OPTIONS request that carries a url parameter on a path other
\* than / has been answered with 204
C15_Witness ==
    /\ fn = "relay" /\ Replied
    /\ input.method = "OPTIONS" /\ input.path # "/" /\ UrlOf(input) # ""
    /\ Reply.status = 204

\* C15 happens as well: a GET whose url parameter is empty has been answered
\* with 400
C15_WitnessMissing ==
    /\ fn = "relay" /\ Replied
    /\ input.method = "GET" /\ input.query = << <<"url", "">> >>
    /\ Reply.status = 400

\* C16: a request that is not OPTIONS and carries a url parameter makes exactly
\* one outbound fetch, of that url; when the fetch completes the reply carries
\* the upstream status and body, Access-Control-Allow-Origin *, an
\* Access-Control-Allow-Methods header and Cache-Control max-age=15 whatever the
\* upstream sent; when it throws the reply is 502 with the body "Proxy fetch
\* failed: " followed by the error text.  Every request gets exactly one reply.
C16_Forwarding ==
    fn = "relay" =>
        /\ Len(output.replies) = (IF Replied THEN 1 ELSE 0)
        /\ ~Replied => ENABLED RelayNext
        /\ IsForwarded(input) =>
              /\ output.pc # "start" => output.fetches = <<UrlOf(input)>>
              /\ output.pc = "start" => output.fetches = <<>>
              /\ Replied /\ output.upstream.t = "completed" =>
                    /\ Reply.status = output.upstream.resp.status
                    /\ Reply.body = output.upstream.resp.body
                    /\ Reply.headers["access-control-allow-origin"] = "*"
                    /\ "access-control-allow-methods" \in DOMAIN Reply.headers
                    /\ Reply.headers["cache-control"] = "max-age=15"
              /\ Replied /\ output.upstream.t = "threw" =>
                    /\ Reply.status = 502
                    /\ Reply.body = "Proxy fetch failed: " \o ErrorText(output.upstream.error)
              /\ Replied => output.upstream.t \in {"completed", "threw"}

\* C16 happens: an upstream 404 that sent its own Cache-Control and
\* Access-Control-Allow-Origin has been relayed as a 404 with its body
C16_Witness ==
    /\ fn = "relay" /\ Replied /\ IsForwarded(input)
    /\ output.upstream.t = "completed"
    /\ output.upstream.resp.status = 404
    /\ output.upstream.resp.body = "Not Found"
    /\ "cache-control" \in DOMAIN output.upstream.resp.headers
    /\ output.upstream.resp.headers["cache-control"] = "max-age=3600"
    /\ Reply.status = 404 /\ Reply.body = "Not Found"

----------------------------------------------------------------------------
(* Rendering: the end of a load on its own.  The try block stores the Games *)
(* a normalizer returned and renders them; the catch block stores the mock  *)
(* Games and renders them.                                                  *)

RenderInit ==
    /\ fn = "none"
    /\ input \in [of : {"normalizeESPNGames"}, data : ESPNPayloads]
                 \cup [of : {"normalizeLiveGames"}, data : LivePayloads]
                 \cup [of : {"normalizeHistoricalGames"}, data : HistoricalPayloads]
    /\ output = Undef
    /\ dom \in DomShapes
    /\ tz = 0
    /\ now = StartInstant
    /\ currentDate = StartInstant
    /\ games = <<>>
    /\ grid = showLoading(dom, FALSE, StaticGrid)
    /\ dateDisplay = [text |-> "", picker |-> ""]
    /\ spinning = FALSE
    /\ requests = {}
    /\ issued = 0
    /\ notifications = {}
    /\ timers = {}
    /\ shown = NoneEnded

\* this.games = gamesData; this.render()
RenderLoaded ==
    /\ fn = "none"
    /\ NormalizerOf(input.of, input.data).t = "return"
    /\ fn' = "render"
    /\ output' = NormalizerOf(input.of, input.data)
    /\ games' = output'.games
    /\ grid' = render(dom, games', grid)
    /\ UNCHANGED <<input, dom, tz, now, currentDate, dateDisplay, spinning, requests, issued,
                   notifications, timers, shown>>

\* this.games = this.getMockData(); this.render()
RenderMock ==
    /\ fn = "none"
    /\ NormalizerOf(input.of, input.data).t # "return"
    /\ fn' = "mock"
    /\ output' = Threw
    /\ games' = getMockData
    /\ grid' = render(dom, games', grid)
    /\ UNCHANGED <<input, dom, tz, now, currentDate, dateDisplay, spinning, requests, issued,
                   notifications, timers, shown>>

RenderNext == RenderLoaded \/ RenderMock

SpecRender == RenderInit /\ [][RenderNext]_vars

\* the highlight C18 asks for, for a Game whose scores are numbers
WinnerAsClaimed(game) ==
    IF game.statusCode # Num(3) THEN "none"
    ELSE IF game.home.score.n > game.away.score.n THEN "home"
    ELSE "visitor"

\* C18: render marks a team as winner only in a Game with statusCode 3; there
\* exactly one team is marked, the home team when home.score > away.score and
\* the away team otherwise; a Game with statusCode 1 or 2 has nobody marked.
\* The mock Games render as two cards, the first (statusCode 3, not live, 112
\* against 109) with the home team marked, the second (statusCode 2, live,
\* clock "Q4 2:30") with nobody marked.
C18_WinnerHighlight ==
    /\ grid.kind = "cards" =>
          /\ Len(grid.cards) = Len(games)
          /\ \A i \in DOMAIN games :
                /\ grid.cards[i].winner # "none" => games[i].statusCode = Num(3)
                /\ games[i].statusCode = Num(3) => grid.cards[i].winner \in {"home", "visitor"}
                /\ games[i].statusCode \in {Num(1), Num(2)} => grid.cards[i].winner = "none"
                /\ games[i].home.score.t = "number" /\ games[i].away.score.t = "number"
                      => grid.cards[i].winner = WinnerAsClaimed(games[i])
    /\ fn = "mock" /\ dom.grid /\ dom.template =>
          /\ grid.kind = "cards" /\ Len(games) = 2 /\ Len(grid.cards) = 2
          /\ games[1].statusCode = Num(3) /\ ~games[1].isLive
          /\ games[1].home.score = Num(112) /\ games[1].away.score = Num(109)
          /\ grid.cards[1].winner = "home"
          /\ games[2].statusCode = Num(2) /\ games[2].isLive
          /\ games[2].clock = Str("Q4 2:30")
          /\ grid.cards[2].winner = "none"

\* C18 happens: the rendered cards hold a final Game that the away team won or
\* tied, marked for the away team, next to a Game that is not final and has
\* nobody marked
C18_Witness ==
    /\ fn = "render" /\ grid.kind = "cards"
    /\ \E i, j \in DOMAIN games :
          /\ games[i].statusCode = Num(3)
          /\ games[i].home.score.t = "number" /\ games[i].away.score.t = "number"
          /\ games[i].home.score.n <= games[i].away.score.n
          /\ grid.cards[i].winner = "visitor"
          /\ games[j].statusCode # Num(3)
          /\ grid.cards[j].winner = "none"

====
